---- MODULE Spec2Model ----
(***************************************************************************)
(* Job queue of knok-fm (internal/repository/redis/queue.go), the worker    *)
(* service that consumes it (internal/service/worker/service.go), the      *)
(* metadata handler and its extraction pipeline (worker/processor.go) and  *)
(* the callers that queue jobs for knoks (bot, API).                       *)
(*                                                                         *)
(* The store is modelled by the Redis keys of one job type: the pending    *)
(* list queue:<type>, the list processing:<type>, the sorted set           *)
(* retry:<type>, the list dead:<type> and the "data" field of every        *)
(* job:<id> hash.  One step of a process is one Redis round trip (a single *)
(* command or one MULTI/EXEC pipeline), so that the gaps between the read  *)
(* and the write of an operation are visible to the other processes.       *)
(***************************************************************************)
EXTENDS Integers, Sequences, FiniteSets, TLC

\* ---------------------------------------------------------------- bounds
NumJobs == 2
NumKnoks == 1
NumProcs == 2
MaxTime == 1
MaxFailCalls == 7
MaxCompleteCalls == 2
MaxHandlerErrors == 2
CycleJobs == 11
SeqJobs == 1
MaxTags == 2
NumDetectors == 2
MaxParams == 2
MaxPriority == 1
MaxParts == 3
MaxText == 3

\* ------------------------------------------------------ program constants
maxRetries == 5
initialBackoffSec == 1
maxBackoffSec == 300
\* A cycle without a cap: as many iterations as the depth read.
maxJobsUncapped == CycleJobs + 1

maxJobsPerCycle == 10

JobStatusPending == "pending"
JobStatusProcessing == "processing"
JobStatusCompleted == "completed"
JobStatusFailed == "failed"

ExtractionStatusPending == "pending"
ExtractionStatusProcessing == "processing"
ExtractionStatusComplete == "complete"
ExtractionStatusFailed == "failed"

JobIds == 1..NumJobs
KnokIds == 1..NumKnoks
Procs == 1..NumProcs
Detectors == 1..NumDetectors
NoJob == 0
ErrorMsgs == {"handler error"}

\* The "data" blob of a job hash that does not exist (HGet answers redis.Nil).
NoData == [status |-> "absent", retry_count |-> 0, error |-> ""]
\* The job Dequeue hands to its caller; NoJob when the caller holds none.
NoHeld == [id |-> NoJob, status |-> "none"]
\* The metadata fields; a Go map reads "" for a key it does not hold.
Fields == {"title", "description", "image", "site_name"}
EmptyMeta == [f \in Fields |-> ""]
\* The outcome of every tier and the result, before an extraction has begun.
\* An oEmbed answer with every member missing.
NoResponse ==
  [title |-> "", description |-> "", author_name |-> "", thumbnail_url |-> "",
   provider_name |-> ""]
NoTiers ==
  [oembed |-> [kind |-> "none", resp |-> NoResponse],
   http |-> [kind |-> "none", meta |-> EmptyMeta],
   rod |-> [kind |-> "none", meta |-> EmptyMeta],
   title |-> [kind |-> "none", raw |-> ""]]
NoResult == [meta |-> EmptyMeta, method |-> "", err |-> FALSE, calls |-> <<>>]
\* A knok that is not in the knoks table.
NoKnok ==
  [status |-> "absent", title |-> "", description |-> "", image |-> "",
   site_name |-> "", method |-> ""]
\* No extraction under way.
NoExt == [in |-> NoTiers, out |-> NoResult, done |-> FALSE]
\* No document parsed.
NoHtml == [doc |-> <<>>, ogData |-> EmptyMeta, done |-> FALSE]
\* A worker that is not inside a processJobType cycle.
NoCycle == [depth |-> 0, calls |-> 0, failed |-> FALSE]

VARIABLES
  queue,       \* queue:<type>, head first (LPUSH adds at the head)
  processing,  \* processing:<type>, head first
  retry,       \* retry:<type>: member -> score
  dead,        \* dead:<type>, head first
  jobs,        \* job:<id> "data": the serialized QueueJob
  stats,       \* stats:<type>: the counters kept with HINCRBY
  now,         \* time.Now().Unix()
  pc,          \* where each process stands
  arg,         \* the jobID an operation in progress works on
  snap,        \* the QueueJob an operation has read and not yet written back
  batch,       \* ProcessRetryJobs: the entries ZRangeByScore returned
  held,        \* the job Dequeue returned, until its holder Completes or Fails it
  loop,        \* processJobType: iterations left in this cycle (maxJobs - i)
  cycle,       \* history: the depth a worker's cycle read, its Dequeue calls
  failCalls,     \* history: number of Fail calls issued on each job id
  known,         \* history: the ids Dequeue has returned to a caller
  handlerResult, \* history: how the handler last returned for each job id
  enqueueResult, \* history: how the last Enqueue that drew the id returned
  knoks,       \* the knoks table: extraction status, title and metadata
  hsnap,       \* ProcessMetadataExtraction: the knok GetByID returned
  ext,         \* extractMetadataWithFallbacks: tier outcomes and result
  bot,         \* processDetectedURL: the inputs of the last call, what it returned
  svc,         \* WorkerService: ctx cancelled, the ticker's channel, cycles since
  html,        \* extractOgMetadataFromHTML: the document and the map returned
  norm,        \* NormalizeURL: two raw URLs and what each normalizes to
  loader,      \* platform Loader: loaded, and the cached platforms
  patterns,    \* each Detector's compiled patterns, in matching order
  det,         \* DetectURLs: the message content and the entries returned
  oreq         \* buildOEmbedURL: the endpoint, the resource URL, the URL built

store == <<queue, processing, retry, dead, jobs, stats>>
locals == <<pc, arg, snap, batch, held, loop, cycle>>
history == <<failCalls, known, handlerResult, enqueueResult>>
app == <<knoks, hsnap, ext, bot, svc>>
pure == <<html, norm, loader, patterns, det, oreq>>
vars == <<queue, processing, retry, dead, jobs, stats, now, pc, arg, snap, batch, held, loop,
          cycle, failCalls, known, handlerResult, enqueueResult, knoks, hsnap, ext, bot,
          svc, html, norm, loader, patterns, det, oreq>>

\* ---------------------------------------------------------------- helpers
Min(a, b) == IF a <= b THEN a ELSE b

RECURSIVE Pow2(_)
Pow2(n) == IF n <= 0 THEN 1 ELSE 2 * Pow2(n - 1)

Range(s) == {s[i] : i \in 1..Len(s)}

Count(s, x) == Cardinality({i \in 1..Len(s) : s[i] = x})

\* LREM key 1 x: remove the first occurrence of x, from the head.
LRem(s, x) ==
  IF x \in Range(s)
  THEN LET k == CHOOSE i \in 1..Len(s) : s[i] = x /\ \A h \in 1..(i - 1) : s[h] # x
       IN SubSeq(s, 1, k - 1) \o SubSeq(s, k + 1, Len(s))
  ELSE s

\* A push at the tail of the list, where BRPOPLPUSH takes from.
RPush(s, x) == s \o <<x>>

\* LPUSH key x.
LPush(s, x) == <<x>> \o s

\* ZRANGEBYSCORE key 0 max: members by ascending score, ties by member.
RECURSIVE SortByScore(_, _)
SortByScore(z, S) ==
  IF S = {} THEN <<>>
  ELSE LET m == CHOOSE x \in S : \A y \in S : z[x] < z[y] \/ (z[x] = z[y] /\ x <= y)
       IN <<m>> \o SortByScore(z, S \ {m})

\* A backoff whose exponent counts from the retry_count itself.
backoffSecFromZero(retryCount) ==
  Min(initialBackoffSec * Pow2(retryCount), maxBackoffSec)

\* Fail's delay for the retry_count it has just incremented to.
backoffSec(retryCount) ==
  Min(initialBackoffSec * Pow2(retryCount - 1), maxBackoffSec)

\* HINCRBY key field n.
HIncrBy(h, field, n) == [h EXCEPT ![field] = @ + n]

\* The stats hash before any HINCRBY: every field reads as 0.
NoStats ==
  [total_enqueued |-> 0, pending |-> 0, processing |-> 0, completed |-> 0,
   failed |-> 0]

\* No URL normalized.
NoNorm == [in |-> <<>>, out |-> <<>>, done |-> FALSE]
\* A Loader as NewLoader returns it.
NoLoader == [loaded |-> FALSE, platforms |-> {}, result |-> "none", storeErr |-> FALSE]
\* No message scanned.
NoDet == [parts |-> <<>>, content |-> <<>>, urls |-> <<>>, done |-> FALSE]
\* No processDetectedURL call made.
NoBot == [platform |-> "", default |-> "", setting |-> "", returned |-> "none"]
\* The WorkerService as NewWorkerService and Start leave it: the context
\* live, the ticker's channel (capacity 1) empty, no cycle started since Stop.
Started == [cancelled |-> FALSE, tick |-> 0, further |-> 0]
\* No oEmbed URL built.
NoOEmbed ==
  [endpoint |-> <<>>, resourceURL |-> <<>>, url |-> <<>>, err |-> FALSE, done |-> FALSE]

\* No call of a pure function is under way, no platform loaded, no detector.
PureInit ==
  /\ html = NoHtml
  /\ norm = NoNorm
  /\ loader = NoLoader
  /\ patterns = [d \in Detectors |-> <<>>]
  /\ det = NoDet
  /\ oreq = NoOEmbed

\* Empty lists, no job, no knok, every process idle.
Idle ==
  /\ queue = <<>>
  /\ processing = <<>>
  /\ retry = [m \in {} |-> 0]
  /\ dead = <<>>
  /\ jobs = [j \in JobIds |-> NoData]
  /\ stats = NoStats
  /\ now = 0
  /\ pc = [p \in Procs |-> "idle"]
  /\ arg = [p \in Procs |-> NoJob]
  /\ snap = [p \in Procs |-> NoData]
  /\ batch = [p \in Procs |-> <<>>]
  /\ held = [p \in Procs |-> NoHeld]
  /\ loop = [p \in Procs |-> 0]
  /\ cycle = [p \in Procs |-> NoCycle]
  /\ failCalls = [j \in JobIds |-> 0]
  /\ known = {}
  /\ handlerResult = [j \in JobIds |-> "none"]
  /\ enqueueResult = [j \in JobIds |-> "none"]
  /\ knoks = [k \in KnokIds |-> NoKnok]
  /\ hsnap = [p \in Procs |-> NoKnok]
  /\ bot = NoBot
  /\ svc = Started
  /\ ext = NoExt

Init == Idle /\ PureInit

\* ------------------------------------------------------------- the clock
Tick ==
  /\ now < MaxTime
  /\ now' = now + 1
  /\ UNCHANGED <<store, locals, history, app, pure>>

\* ----------------------------------------------------- queue operations
\* An Enqueue whose LPUSH is sent on its own, before a pipeline that fails.
EnqueuePushThenFail(id) ==
  /\ jobs[id] = NoData
  /\ queue' = LPush(queue, id)
  /\ enqueueResult' = [enqueueResult EXCEPT ![id] = "error"]
  /\ UNCHANGED <<processing, retry, dead, jobs, stats, now, locals,
                 failCalls, known, handlerResult>>

\* Enqueue: one MULTI/EXEC pipeline that stores the job, pushes the new id
\* and increments the counters; Enqueue returns nil.
Enqueue(id) ==
  /\ jobs[id] = NoData
  /\ jobs' = [jobs EXCEPT ![id] =
                [status |-> JobStatusPending, retry_count |-> 0, error |-> ""]]
  /\ queue' = LPush(queue, id)
  /\ stats' = HIncrBy(HIncrBy(stats, "total_enqueued", 1), "pending", 1)
  /\ enqueueResult' = [enqueueResult EXCEPT ![id] = "ok"]
  /\ UNCHANGED <<processing, retry, dead, now, locals, failCalls, known,
                 handlerResult>>

\* Enqueue returns an error: the payload or the job cannot be serialized, or
\* the pipeline's Exec fails; the queued commands of a MULTI/EXEC that fails
\* are not run.
EnqueueError(id) ==
  /\ jobs[id] = NoData
  /\ enqueueResult' = [enqueueResult EXCEPT ![id] = "error"]
  /\ UNCHANGED <<store, now, locals, failCalls, known, handlerResult>>

\* A pop that does not push: RPOP and LPUSH as two commands instead of one.
DequeuePopOnly(p, from, toGot, toNone) ==
  /\ pc[p] = from
  /\ IF queue # <<>>
     THEN /\ queue' = SubSeq(queue, 1, Len(queue) - 1)
          /\ arg' = [arg EXCEPT ![p] = queue[Len(queue)]]
          /\ pc' = [pc EXCEPT ![p] = toGot]
     ELSE /\ pc' = [pc EXCEPT ![p] = toNone]
          /\ UNCHANGED <<queue, arg>>
  /\ UNCHANGED <<processing, retry, dead, jobs, stats, now, snap, batch, history>>

\* Dequeue, BRPOPLPUSH queue processing: the tail of the pending list moves
\* to the head of the processing list; on an empty list the call times out
\* and Dequeue returns (nil, nil).
DequeuePop(p, from, toGot, toNone) ==
  /\ pc[p] = from
  /\ IF queue # <<>>
     THEN /\ queue' = SubSeq(queue, 1, Len(queue) - 1)
          /\ processing' = LPush(processing, queue[Len(queue)])
          /\ arg' = [arg EXCEPT ![p] = queue[Len(queue)]]
          /\ pc' = [pc EXCEPT ![p] = toGot]
     ELSE /\ pc' = [pc EXCEPT ![p] = toNone]
          /\ UNCHANGED <<queue, processing, arg>>
  /\ UNCHANGED <<retry, dead, jobs, stats, now, snap, batch, history>>

\* Dequeue, HGET job:<id> data; a missing hash drops the id from processing
\* and returns an error.
DequeueGet(p, from, to, toErr) ==
  /\ pc[p] = from
  /\ IF jobs[arg[p]] = NoData
     THEN /\ processing' = LRem(processing, arg[p])
          /\ arg' = [arg EXCEPT ![p] = NoJob]
          /\ pc' = [pc EXCEPT ![p] = toErr]
          /\ UNCHANGED snap
     ELSE /\ snap' = [snap EXCEPT ![p] = jobs[arg[p]]]
          /\ pc' = [pc EXCEPT ![p] = to]
          /\ UNCHANGED <<processing, arg>>
  /\ UNCHANGED <<queue, retry, dead, jobs, stats, now, batch, history>>

\* Dequeue, the pipeline that writes the job back as processing, and return.
DequeueUpdate(p, from, to) ==
  /\ pc[p] = from
  /\ jobs' = [jobs EXCEPT ![arg[p]] = [snap[p] EXCEPT !.status = JobStatusProcessing]]
  /\ held' = [held EXCEPT ![p] = [id |-> arg[p], status |-> JobStatusProcessing]]
  /\ stats' = HIncrBy(HIncrBy(stats, "pending", -1), "processing", 1)
  /\ known' = known \cup {arg[p]}
  /\ snap' = [snap EXCEPT ![p] = NoData]
  /\ arg' = [arg EXCEPT ![p] = NoJob]
  /\ pc' = [pc EXCEPT ![p] = to]
  /\ UNCHANGED <<queue, processing, retry, dead, now, batch, failCalls, handlerResult,
                 enqueueResult>>

\* A Complete that does not look at what HGET found.
CompleteWithoutRecord(p, id, from, to, toErr) ==
  /\ pc[p] = from
  /\ arg' = [arg EXCEPT ![p] = id]
  /\ snap' = [snap EXCEPT ![p] = jobs[id]]
  /\ pc' = [pc EXCEPT ![p] = to]
  /\ UNCHANGED <<store, now, batch, history>>

\* Complete, HGET job:<id> data; a missing hash is an error and nothing changes.
CompleteGet(p, id, from, to, toErr) ==
  /\ pc[p] = from
  /\ IF jobs[id] = NoData
     THEN /\ pc' = [pc EXCEPT ![p] = toErr]
          /\ UNCHANGED <<arg, snap>>
     ELSE /\ arg' = [arg EXCEPT ![p] = id]
          /\ snap' = [snap EXCEPT ![p] = jobs[id]]
          /\ pc' = [pc EXCEPT ![p] = to]
  /\ UNCHANGED <<store, now, batch, history>>

\* The caller gives back the job it holds by Completing or Failing it.
Release(h, p, id) == IF h[p].id = id THEN [h EXCEPT ![p] = NoHeld] ELSE h

\* Complete, the pipeline: the job read is written back as completed and one
\* occurrence of the id leaves the processing list.
CompleteExec(p, from, to) ==
  /\ pc[p] = from
  /\ jobs' = [jobs EXCEPT ![arg[p]] = [snap[p] EXCEPT !.status = JobStatusCompleted]]
  /\ processing' = LRem(processing, arg[p])
  /\ stats' = HIncrBy(HIncrBy(stats, "processing", -1), "completed", 1)
  /\ snap' = [snap EXCEPT ![p] = NoData]
  /\ arg' = [arg EXCEPT ![p] = NoJob]
  /\ pc' = [pc EXCEPT ![p] = to]
  /\ UNCHANGED <<queue, retry, dead, now, batch, history>>

\* Fail, HGET job:<id> data; a missing hash is an error and nothing changes.
FailGet(p, id, from, to, toErr) ==
  /\ pc[p] = from
  /\ IF jobs[id] = NoData
     THEN /\ pc' = [pc EXCEPT ![p] = toErr]
          /\ UNCHANGED <<arg, snap, failCalls>>
     ELSE /\ failCalls' = [failCalls EXCEPT ![id] = @ + 1]
          /\ arg' = [arg EXCEPT ![p] = id]
          /\ snap' = [snap EXCEPT ![p] = jobs[id]]
          /\ pc' = [pc EXCEPT ![p] = to]
  /\ UNCHANGED <<store, now, batch, known, handlerResult, enqueueResult>>

\* A retry budget that is one too large.
ShouldRetryOffByOne(retryCount) == retryCount <= maxRetries + 1

\* Fail's decision on the retry_count it has incremented to.
ShouldRetry(retryCount) == retryCount <= maxRetries

\* Fail, the pipeline: schedule the retry (ZADD) or dead-letter the id (LPUSH),
\* write the job back, and remove one occurrence from the processing list.
\* time.Now() is read between the HGET and the pipeline; the model reads the
\* clock in the pipeline step.  The QueueJob written back is the job read,
\* with the error, the incremented retry_count and the status of the branch
\* taken.  ZADD inserts the member, or updates its score.
FailExec(p, errorMsg, from, to) ==
  /\ pc[p] = from
  /\ LET job == [status |-> IF ShouldRetry(snap[p].retry_count + 1)
                            THEN JobStatusPending ELSE JobStatusFailed,
                 retry_count |-> snap[p].retry_count + 1,
                 error |-> errorMsg]
         ZAdd(z, x, score) ==
           [m \in DOMAIN z \cup {x} |-> IF m = x THEN score ELSE z[m]]
     IN /\ IF ShouldRetry(job.retry_count)
           THEN /\ retry' = ZAdd(retry, arg[p], now + backoffSec(job.retry_count))
                /\ stats' = HIncrBy(stats, "processing", -1)
                /\ UNCHANGED dead
           ELSE /\ dead' = LPush(dead, arg[p])
                /\ stats' = HIncrBy(HIncrBy(stats, "failed", 1), "processing", -1)
                /\ UNCHANGED retry
        /\ jobs' = [jobs EXCEPT ![arg[p]] = job]
  /\ processing' = LRem(processing, arg[p])
  /\ snap' = [snap EXCEPT ![p] = NoData]
  /\ arg' = [arg EXCEPT ![p] = NoJob]
  /\ pc' = [pc EXCEPT ![p] = to]
  /\ UNCHANGED <<queue, now, batch, history>>

\* ProcessRetryJobs, ZRANGEBYSCORE retry 0 now; no entry due: return.
RetryRead(p, from, to, toNone) ==
  /\ pc[p] = from
  /\ LET due == SortByScore(retry, {m \in DOMAIN retry : retry[m] >= 0 /\ retry[m] <= now})
     IN IF due = <<>>
        THEN /\ pc' = [pc EXCEPT ![p] = toNone]
             /\ UNCHANGED batch
        ELSE /\ batch' = [batch EXCEPT ![p] = due]
             /\ pc' = [pc EXCEPT ![p] = to]
  /\ UNCHANGED <<store, now, arg, snap, history>>

\* The pipeline's ZREM of every entry read.
RECURSIVE ZRemAll(_, _)
ZRemAll(z, ids) ==
  LET ZRem(x) == [m \in DOMAIN z \ {x} |-> z[m]]
  IN IF ids = <<>> THEN z ELSE ZRemAll(ZRem(Head(ids)), Tail(ids))

\* The pipeline's LPUSH of every entry read, in the order read.
RECURSIVE LPushAll(_, _)
LPushAll(s, ids) ==
  IF ids = <<>> THEN s ELSE LPushAll(LPush(s, Head(ids)), Tail(ids))

\* ProcessRetryJobs, the pipeline: ZREM and LPUSH for every entry read.
RetryExec(p, from, to) ==
  /\ pc[p] = from
  /\ retry' = ZRemAll(retry, batch[p])
  /\ queue' = LPushAll(queue, batch[p])
  /\ stats' = HIncrBy(stats, "pending", Len(batch[p]))
  /\ batch' = [batch EXCEPT ![p] = <<>>]
  /\ pc' = [pc EXCEPT ![p] = to]
  /\ UNCHANGED <<processing, dead, jobs, now, arg, snap, history>>

\* ------------------------------------------- callers of the repository
\* Producers: Enqueue draws a new id (uuid.New).
CallEnqueue ==
  /\ \E id \in JobIds : Enqueue(id)
  /\ UNCHANGED <<app, pure>>

\* A process that holds no job calls Dequeue.
CallDequeue(p) ==
  /\ held[p] = NoHeld
  /\ DequeuePop(p, "idle", "dq_get", "idle")
  /\ UNCHANGED <<held, loop, cycle, app, pure>>

CallDequeueGet(p) ==
  /\ DequeueGet(p, "dq_get", "dq_upd", "idle")
  /\ UNCHANGED <<held, loop, cycle, app, pure>>

CallDequeueUpdate(p) ==
  /\ DequeueUpdate(p, "dq_upd", "idle")
  /\ UNCHANGED <<loop, cycle, app, pure>>

\* A consumer Completes or Fails the job it holds.
ConsumerComplete(p) ==
  /\ held[p] # NoHeld
  /\ CompleteGet(p, held[p].id, "idle", "cp_exec", "idle")
  /\ UNCHANGED <<held, loop, cycle, app, pure>>

ConsumerFail(p) ==
  /\ held[p] # NoHeld
  /\ FailGet(p, held[p].id, "idle", "fl_exec", "idle")
  /\ UNCHANGED <<held, loop, cycle, app, pure>>

\* Any caller of the public methods: Complete and Fail with the id of any job
\* that Dequeue has returned (Enqueue does not return the id it draws).
CallComplete(p) ==
  /\ stats.completed < MaxCompleteCalls
  /\ \E id \in known : CompleteGet(p, id, "idle", "cp_exec", "idle")
  /\ UNCHANGED <<held, loop, cycle, app, pure>>

CallFail(p) ==
  /\ \E id \in known :
       /\ failCalls[id] < MaxFailCalls
       /\ FailGet(p, id, "idle", "fl_exec", "idle")
  /\ UNCHANGED <<held, loop, cycle, app, pure>>

CallCompleteExec(p) ==
  /\ CompleteExec(p, "cp_exec", "idle")
  /\ held' = Release(held, p, arg[p])
  /\ UNCHANGED <<loop, cycle, app, pure>>

CallFailExec(p) ==
  /\ \E e \in ErrorMsgs : FailExec(p, e, "fl_exec", "idle")
  /\ held' = Release(held, p, arg[p])
  /\ UNCHANGED <<loop, cycle, app, pure>>

\* The retry promoter.
CallProcessRetryJobs(p) ==
  /\ RetryRead(p, "idle", "pr_exec", "idle")
  /\ UNCHANGED <<held, loop, cycle, app, pure>>

CallProcessRetryJobsExec(p) ==
  /\ RetryExec(p, "pr_exec", "idle")
  /\ UNCHANGED <<held, loop, cycle, app, pure>>

\* Several consumers and promoters at once, each working on the job it
\* dequeued.
Next ==
  \/ Tick
  \/ CallEnqueue
  \/ \E p \in Procs :
       \/ CallDequeue(p)
       \/ CallDequeueGet(p)
       \/ CallDequeueUpdate(p)
       \/ ConsumerComplete(p)
       \/ CallCompleteExec(p)
       \/ ConsumerFail(p)
       \/ CallFailExec(p)
       \/ CallProcessRetryJobs(p)
       \/ CallProcessRetryJobsExec(p)

Spec == Init /\ [][Next]_vars

\* One caller, one call in progress at a time, Complete and Fail called with
\* the id of any job Dequeue has returned, whatever the job's state.
SeqSpec == Init /\ [][\/ Tick
                      \/ \E id \in 1..SeqJobs : Enqueue(id) /\ UNCHANGED <<app, pure>>
                      \/ CallDequeue(1)
                      \/ CallDequeueGet(1)
                      \/ CallDequeueUpdate(1)
                      \/ CallComplete(1)
                      \/ CallCompleteExec(1)
                      \/ CallFail(1)
                      \/ CallFailExec(1)
                      \/ CallProcessRetryJobs(1)
                      \/ CallProcessRetryJobsExec(1)]_vars

\* --------------------------------------------------- the worker service
\* processJobType reads the pending depth once per cycle and runs at most
\* maxJobs = min(depth, 10) iterations; `loop` counts the iterations left.
\* Where the for loop goes after an iteration.
NextIter(w) == IF loop[w] > 1 THEN "w_dequeue" ELSE "idle"

\* The iteration ends (continue, or processJob returned) or goes on.
EndIter(w, ends) ==
  /\ loop' = [loop EXCEPT ![w] = IF ends THEN loop[w] - 1 ELSE loop[w]]
  /\ held' = [held EXCEPT ![w] = IF ends THEN NoHeld ELSE held[w]]
  /\ cycle' = [cycle EXCEPT ![w] =
                 IF ends /\ NextIter(w) = "idle" THEN NoCycle ELSE @]
  /\ UNCHANGED <<app, pure>>

\* processJobs: the ticker fires and processJobType calls GetPendingCount.
WorkerTick(w) ==
  /\ pc[w] = "idle"
  /\ Len(queue) > 0
  /\ loop' = [loop EXCEPT ![w] = Min(Len(queue), maxJobsPerCycle)]
  /\ cycle' = [cycle EXCEPT ![w] =
                 [depth |-> Len(queue), calls |-> 0, failed |-> FALSE]]
  /\ pc' = [pc EXCEPT ![w] = "w_dequeue"]
  /\ UNCHANGED <<store, now, arg, snap, batch, held, history, app, pure>>

\* processJobType: Dequeue; a nil job breaks the loop.
WorkerDequeue(w) ==
  /\ DequeuePop(w, "w_dequeue", "w_dq_get", "idle")
  /\ loop' = [loop EXCEPT ![w] = IF queue # <<>> THEN loop[w] ELSE 0]
  /\ cycle' = [cycle EXCEPT ![w] =
                 IF queue # <<>> THEN [@ EXCEPT !.calls = @ + 1] ELSE NoCycle]
  /\ UNCHANGED <<held, app, pure>>

\* processJobType: Dequeue returns an error because the store cannot be
\* reached (BRPOPLPUSH fails); the error is logged and the loop continues.
WorkerDequeueUnavailable(w) ==
  /\ pc[w] = "w_dequeue"
  /\ pc' = [pc EXCEPT ![w] = NextIter(w)]
  /\ loop' = [loop EXCEPT ![w] = loop[w] - 1]
  /\ cycle' = [cycle EXCEPT ![w] =
                 IF NextIter(w) = "idle" THEN NoCycle
                 ELSE [@ EXCEPT !.calls = @ + 1, !.failed = TRUE]]
  /\ UNCHANGED <<store, now, arg, snap, batch, held, history, app, pure>>

WorkerDequeueGet(w) ==
  /\ DequeueGet(w, "w_dq_get", "w_dq_upd", NextIter(w))
  /\ EndIter(w, jobs[arg[w]] = NoData)

WorkerDequeueUpdate(w) ==
  /\ DequeueUpdate(w, "w_dq_upd", "pj_mark")
  /\ UNCHANGED <<loop, cycle, app, pure>>

\* processJob, "Update job status to processing": calls Complete on the job.
WorkerMark(w) ==
  /\ CompleteGet(w, held[w].id, "pj_mark", "pj_mark_exec", "pj_handler")
  /\ UNCHANGED <<held, loop, cycle, app, pure>>

WorkerMarkExec(w) ==
  /\ CompleteExec(w, "pj_mark_exec", "pj_handler")
  /\ UNCHANGED <<held, loop, cycle, app, pure>>

\* processJob: the handler of the job type runs and returns nil or an error.
WorkerHandler(w) ==
  /\ pc[w] = "pj_handler"
  /\ \E processingErr \in BOOLEAN :
       /\ processingErr =>
            Cardinality({j \in DOMAIN handlerResult : handlerResult[j] = "error"})
              < MaxHandlerErrors
       /\ pc' = [pc EXCEPT ![w] = IF processingErr THEN "pj_fail" ELSE "pj_complete"]
       /\ handlerResult' = [handlerResult EXCEPT ![held[w].id] =
                              IF processingErr THEN "error" ELSE "ok"]
  /\ UNCHANGED <<store, now, arg, snap, batch, held, loop, cycle, failCalls, known,
                 enqueueResult, app, pure>>

\* processJob, processingErr != nil: Fail.
WorkerFail(w) ==
  /\ FailGet(w, held[w].id, "pj_fail", "pj_fail_exec", NextIter(w))
  /\ EndIter(w, jobs[held[w].id] = NoData)

WorkerFailExec(w) ==
  /\ \E e \in ErrorMsgs : FailExec(w, e, "pj_fail_exec", NextIter(w))
  /\ EndIter(w, TRUE)

\* processJob, processingErr == nil: Complete.
WorkerComplete(w) ==
  /\ CompleteGet(w, held[w].id, "pj_complete", "pj_complete_exec", NextIter(w))
  /\ EndIter(w, jobs[held[w].id] = NoData)

WorkerCompleteExec(w) ==
  /\ CompleteExec(w, "pj_complete_exec", NextIter(w))
  /\ EndIter(w, TRUE)

\* The worker process dies and is started again.
Crash(w) ==
  /\ pc[w] # "idle"
  /\ pc' = [pc EXCEPT ![w] = "idle"]
  /\ arg' = [arg EXCEPT ![w] = NoJob]
  /\ snap' = [snap EXCEPT ![w] = NoData]
  /\ held' = [held EXCEPT ![w] = NoHeld]
  /\ loop' = [loop EXCEPT ![w] = 0]
  /\ cycle' = [cycle EXCEPT ![w] = NoCycle]
  /\ hsnap' = [hsnap EXCEPT ![w] = NoKnok]
  /\ UNCHANGED <<store, now, batch, history, knoks, ext, bot, svc, pure>>

\* processJobs without the handler it dispatches to.
WorkerQueueSteps(w) ==
  \/ WorkerTick(w)
  \/ WorkerDequeue(w)
  \/ WorkerDequeueGet(w)
  \/ WorkerDequeueUpdate(w)
  \/ WorkerMark(w)
  \/ WorkerMarkExec(w)
  \/ WorkerFail(w)
  \/ WorkerFailExec(w)
  \/ WorkerComplete(w)
  \/ WorkerCompleteExec(w)

Worker(w) ==
  \/ WorkerQueueSteps(w)
  \/ WorkerHandler(w)

\* The program as deployed: producers enqueue, worker processes run
\* processJobs, and a worker process may die at any point.
WorkerSpec == Init /\ [][\/ Tick
                         \/ CallEnqueue
                         \/ \E w \in Procs : Worker(w)
                         \/ \E w \in Procs : Crash(w)]_vars

\* Producers and worker processes at one instant: the clock stands still, so
\* that every retry is scheduled from the same time.
ConsumersSpec == Init /\ [][\/ CallEnqueue
                            \/ \E w \in Procs : Worker(w)
                            \/ \E w \in Procs : Crash(w)]_vars

\* The same without crashes, every worker's loop kept running.
FairWorkerSpec ==
  /\ Init
  /\ [][\/ Tick
        \/ CallEnqueue
        \/ \E w \in Procs : Worker(w)]_vars
  /\ \A w \in Procs : WF_vars(Worker(w))

\* oembedToMetadata: the provider's answer in the pipeline's field names.
oembedToMetadata(oembed) ==
  [title |-> oembed.title,
   description |-> IF oembed.description # "" THEN oembed.description
                   ELSE IF oembed.author_name # "" THEN "By a"
                   ELSE "u",
   image |-> oembed.thumbnail_url,
   site_name |-> IF oembed.provider_name # "" THEN oembed.provider_name
                 ELSE oembed.author_name]

\* TryExtract that reports a URL without a provider as a failure.
TryExtractUnmatchedIsError(o) ==
  IF o.kind = "found"
  THEN [metadata |-> oembedToMetadata(o.resp), isNil |-> FALSE, err |-> FALSE]
  ELSE [metadata |-> EmptyMeta, isNil |-> TRUE, err |-> TRUE]

\* TryExtract: (nil, nil) without a provider, (nil, err) when the provider's
\* endpoint fails or answers what does not decode, the metadata otherwise.
TryExtract(o) ==
  IF o.kind = "unmatched"
  THEN [metadata |-> EmptyMeta, isNil |-> TRUE, err |-> FALSE]
  ELSE IF o.kind \in {"http_error", "decode_error"}
       THEN [metadata |-> EmptyMeta, isNil |-> TRUE, err |-> TRUE]
       ELSE [metadata |-> oembedToMetadata(o.resp), isNil |-> FALSE, err |-> FALSE]

\* strings.TrimSpace and the collapse of inner white space, on the values the
\* model draws: " " is a value of white space only.
CleanUp(value) == IF value = " " THEN "" ELSE value

\* "Use URL as description if missing", for a map that has a title.
\* A merge in which the rendered page wins every field it has.
MergeRodOverwrites(httpMetadata, rodMetadata) ==
  [f \in Fields |->
     IF rodMetadata[f] # "" THEN rodMetadata[f] ELSE httpMetadata[f]]

\* Tier 2's merge: the HTTP results, missing fields filled from the render.
MergeRod(httpMetadata, rodMetadata) ==
  [f \in Fields |->
     IF rodMetadata[f] # "" /\ httpMetadata[f] = "" THEN rodMetadata[f]
     ELSE httpMetadata[f]]

\* Tier 3: the basic title and whatever the static parse found.
FallbackMetadata(title, httpMetadata) ==
  [title |-> title,
   description |-> IF httpMetadata.description # "" THEN httpMetadata.description
                   ELSE "u",
   image |-> httpMetadata.image,
   site_name |-> httpMetadata.site_name]

\* An extraction that gives up when the provider's endpoint fails.
extractAbortOnProviderError(in) ==
  IF in.oembed.kind \in {"http_error", "decode_error"}
  THEN [meta |-> EmptyMeta, method |-> "", err |-> TRUE, calls |-> <<"oembed">>]
  ELSE [meta |-> FallbackMetadata("Unknown Title", EmptyMeta),
        method |-> "title_fallback", err |-> FALSE,
        calls |-> <<"oembed", "http", "title", "rod">>]

\* extractMetadataWithFallbacks on the answers the tiers give; calls lists
\* the fetches it has made, in the order it made them.
extractMetadataWithFallbacks(in) ==
  LET tier0 == in.oembed.kind # "no_extractor"
      oembedResult == TryExtract(in.oembed)
      calls0 == IF tier0 THEN <<"oembed">> ELSE <<>>
  IN IF tier0 /\ ~oembedResult.err /\ ~oembedResult.isNil
     THEN [meta |-> [oembedResult.metadata EXCEPT
                       !.description = IF @ = "" THEN "u" ELSE @],
           method |-> "oembed", err |-> FALSE, calls |-> calls0]
     ELSE
       LET WithUrlDescription(meta) ==
             IF meta.title # "" /\ meta.description = ""
             THEN [meta EXCEPT !.description = "u"] ELSE meta
           \* hasTitle && (hasDescription || hasImage)
           Sufficient(meta) ==
             meta.title # "" /\ (meta.description # "" \/ meta.image # "")
           \* extractTitleFromURL: the fetch, then extractTitleFromHTML on the
           \* text of the first <title> element ("" when there is none).
           extractTitleFromURL(t) ==
             IF t.kind = "error" \/ t.raw = ""
             THEN [title |-> "", err |-> TRUE]
             ELSE [title |-> CleanUp(t.raw), err |-> FALSE]
           httpMetadata == IF in.http.kind = "error" THEN EmptyMeta ELSE in.http.meta
           titleResult == extractTitleFromURL(in.title)
           title == IF titleResult.err THEN "Unknown Title" ELSE titleResult.title
           httpResult == WithUrlDescription(httpMetadata)
           mergedMetadata == WithUrlDescription(MergeRod(httpMetadata, in.rod.meta))
           calls1 == calls0 \o <<"http", "title">>
           calls2 == calls1 \o <<"rod">>
       IN IF Sufficient(httpResult)
          THEN [meta |-> httpResult, method |-> "http_static", err |-> FALSE,
                calls |-> calls1]
          ELSE IF in.rod.kind = "ok" /\ Sufficient(mergedMetadata)
               THEN [meta |-> mergedMetadata, method |-> "rod_browser",
                     err |-> FALSE, calls |-> calls2]
               ELSE [meta |-> FallbackMetadata(title, httpMetadata),
                     method |-> "title_fallback", err |-> FALSE, calls |-> calls2]

\* One call of extractMetadataWithFallbacks on the outcomes drawn.
Extract ==
  /\ ext.in # NoTiers
  /\ ~ext.done
  /\ ext' = [ext EXCEPT !.out = extractMetadataWithFallbacks(ext.in), !.done = TRUE]
  /\ UNCHANGED <<store, now, locals, history, knoks, hsnap, bot, svc, pure>>

\* ------------------------------------------- the extraction pipeline
\* What the tiers can answer for one URL.  A fetched value is named after the
\* tier it comes from: "o" (oEmbed), "h" (static HTML), "r" (rendered page),
\* "t" (the page's <title>); "a" is an oEmbed author and "u" the URL itself.
\* OEmbedResponses is the JSON a provider's endpoint answers; every member
\* may be missing.
\* The pipeline alone, over every combination of tier outcomes.
ExtractInit ==
  LET TierOutcomes ==
      LET TierMetas(tag) == [Fields -> {"", tag}]
          OEmbedResponses ==
            [title : {"", "o"}, description : {"", "o"}, author_name : {"", "a"},
             thumbnail_url : {"", "o"}, provider_name : {"", "o"}]
      IN [oembed : ({[kind |-> k, resp |-> NoResponse]
                       : k \in {"no_extractor", "unmatched", "http_error", "decode_error"}}
                     \cup {[kind |-> "found", resp |-> r] : r \in OEmbedResponses}),
          http : ({[kind |-> "error", meta |-> EmptyMeta]}
                   \cup {[kind |-> "ok", meta |-> m] : m \in TierMetas("h")}),
          rod : ({[kind |-> "error", meta |-> EmptyMeta]}
                  \cup {[kind |-> "ok", meta |-> m] : m \in TierMetas("r")}),
          title : ({[kind |-> "error", raw |-> ""]}
                    \cup {[kind |-> "ok", raw |-> t] : t \in {"", " ", "t"}})]
  IN /\ queue = <<>>
     /\ processing = <<>>
     /\ retry = [m \in {} |-> 0]
     /\ dead = <<>>
     /\ jobs = [j \in JobIds |-> NoData]
     /\ stats = NoStats
     /\ now = 0
     /\ pc = [p \in Procs |-> "idle"]
     /\ arg = [p \in Procs |-> NoJob]
     /\ snap = [p \in Procs |-> NoData]
     /\ batch = [p \in Procs |-> <<>>]
     /\ held = [p \in Procs |-> NoHeld]
     /\ loop = [p \in Procs |-> 0]
     /\ cycle = [p \in Procs |-> NoCycle]
     /\ failCalls = [j \in JobIds |-> 0]
     /\ known = {}
     /\ handlerResult = [j \in JobIds |-> "none"]
     /\ enqueueResult = [j \in JobIds |-> "none"]
     /\ knoks = [k \in KnokIds |-> NoKnok]
     /\ hsnap = [p \in Procs |-> NoKnok]
     /\ bot = NoBot
     /\ svc = Started
     /\ ext \in [in : TierOutcomes, out : {NoResult}, done : {FALSE}]
     /\ PureInit

ExtractSpec == ExtractInit /\ [][Extract]_vars

TagValue(tag) ==
  IF tag.content = "v" THEN (IF tag.source = "og" THEN "og" ELSE "tw")
  ELSE tag.content

\* findOgMetaInNode over the elements in the order the walk meets them: a
\* property is stored when it has a content and the map does not hold it yet.
RECURSIVE findOgMetaInNode(_, _)
findOgMetaInNode(doc, ogData) ==
  IF doc = <<>> THEN ogData
  ELSE LET n == Head(doc)
       IN findOgMetaInNode(Tail(doc),
            IF TagValue(n) # "" /\ n.property \notin DOMAIN ogData
            THEN (n.property :> TagValue(n)) @@ ogData
            ELSE ogData)

\* extractOgMetadataFromHTML: the walk, then the clean-up of every value; the
\* caller reads "" for a key the map does not hold.
extractOgMetadataFromHTML(doc) ==
  LET ogData == findOgMetaInNode(doc, [f \in {} |-> ""])
  IN [f \in Fields |-> IF f \in DOMAIN ogData THEN CleanUp(ogData[f]) ELSE ""]

\* One call of extractOgMetadataFromHTML on the document drawn.
ParseHTML ==
  /\ ~html.done
  /\ html' = [html EXCEPT !.ogData = extractOgMetadataFromHTML(html.doc),
                          !.done = TRUE]
  /\ UNCHANGED <<store, now, locals, history, app, norm, loader, patterns, det, oreq>>

\* ----------------------------------------------- the static document parse
\* The meta elements of a document, in document order.  An element carries
\* property="og:<field>" or name="twitter:<field>" (twitter:site for
\* site_name) and a content: missing, white space, or a value named after
\* its source ("og", "tw").
ParseInit ==
  LET Documents ==
      LET MetaTags ==
            {[source |-> s, property |-> f, content |-> c] :
               s \in {"og", "twitter"}, f \in Fields, c \in {"", " ", "v"}}
      IN UNION {[1..n -> MetaTags] : n \in 0..MaxTags}
  IN /\ Idle
     /\ html \in [doc : Documents, ogData : {EmptyMeta}, done : {FALSE}]
     /\ norm = NoNorm
     /\ loader = NoLoader
     /\ patterns = [d \in Detectors |-> <<>>]
     /\ det = NoDet
     /\ oreq = NoOEmbed

ParseSpec == ParseInit /\ [][ParseHTML]_vars

\* ------------------------------------------------------------- URL texts
\* A text is a sequence of atoms, each a run of characters the scanners and
\* the normalizer never split: brackets, white space, the scheme, "www.", a
\* host name, a path segment, the query separators, a key=value pair, a word
\* and a full stop.  In the texts drawn a key=value pair stands behind "?" or
\* "&" and a scheme before "www." or a host name.
Hosts == {"youtube.com", "YOUTUBE.com", "example.com"}
ParamAtoms == {"v=1", "b=2", "si=x", "utm_id=x"}
WhiteSpace == {" ", "\n"}
SchemeAtom == "https://"

\* strings.ToLower on the atoms of a host.
ToLower(atom) == IF atom = "YOUTUBE.com" THEN "youtube.com" ELSE atom

\* The key of a query parameter that begins with the atom.
KeyOf(atom) ==
  CASE atom = "v=1" -> "v"
    [] atom = "b=2" -> "b"
    [] atom = "si=x" -> "si"
    [] atom = "utm_id=x" -> "utm_id"
    [] OTHER -> atom

\* The index of the first atom of s that is in the set, Len(s) + 1 if none.
RECURSIVE IndexOf(_, _)
IndexOf(s, set) ==
  IF s = <<>> THEN 1
  ELSE IF Head(s) \in set THEN 1
  ELSE 1 + IndexOf(Tail(s), set)

\* strings.TrimRight
RECURSIVE TrimRight(_, _)
TrimRight(s, cutset) ==
  IF s # <<>> /\ s[Len(s)] \in cutset THEN TrimRight(SubSeq(s, 1, Len(s) - 1), cutset)
  ELSE s

\* u.Query(): the parameters of a raw query, split at "&"; an empty
\* parameter is skipped.
RECURSIVE ParseQuery(_)
ParseQuery(query) ==
  IF query = <<>> THEN <<>>
  ELSE LET n == IndexOf(query, {"&"})
           param == SubSeq(query, 1, n - 1)
       IN (IF param = <<>> THEN <<>> ELSE <<param>>)
            \o ParseQuery(SubSeq(query, n + 1, Len(query)))

\* Values.Encode: the parameters sorted by key (KeyOrder is the byte order of
\* the keys), the values of one key in the order they were in, joined by "&".
RECURSIVE InsertByKey(_, _)
InsertByKey(param, sorted) ==
  LET KeyOrder ==
        <<".", "/a", "YOUTUBE.com", "b", "example.com", "https://", "si", "utm_id",
          "v", "www.", "x", "youtube.com">>
      KeyRank(key) ==
        IF \E i \in DOMAIN KeyOrder : KeyOrder[i] = key
        THEN CHOOSE i \in DOMAIN KeyOrder : KeyOrder[i] = key
        ELSE 0
  IN IF sorted = <<>> THEN <<param>>
     ELSE IF KeyRank(KeyOf(param[1])) < KeyRank(KeyOf(Head(sorted)[1]))
          THEN <<param>> \o sorted
          ELSE <<Head(sorted)>> \o InsertByKey(param, Tail(sorted))

RECURSIVE SortByKey(_)
SortByKey(params) ==
  IF params = <<>> THEN <<>>
  ELSE InsertByKey(params[Len(params)], SortByKey(SubSeq(params, 1, Len(params) - 1)))

RECURSIVE Join(_)
Join(params) ==
  IF params = <<>> THEN <<>>
  ELSE IF Len(params) = 1 THEN Head(params)
  ELSE Head(params) \o <<"&">> \o Join(Tail(params))

\* NormalizeURL: trim, add the scheme to a text with a dot, parse (a control
\* character anywhere, or a space or a scheme in the host, fails), reject an
\* empty host, lower-case the host and drop its leading "www.", delete the
\* tracking parameters (q.Del), encode the rest (Values.Encode: sorted by
\* key, joined by "&"), and rebuild the URL.
NormalizeURL(rawURL) ==
  LET InvalidURL == [url |-> <<>>, err |-> TRUE]
      trackingParams ==
        {"utm_source", "utm_medium", "utm_campaign", "utm_content", "utm_term",
         "si", "fbclid", "gclid", "ref", "source", "msclkid", "igshid"}
      \* strings.TrimSpace: from the first atom that is no white space to
      \* the last.
      TrimSpace(right) ==
        SubSeq(right, IndexOf(right, {right[i] : i \in DOMAIN right} \ WhiteSpace),
               Len(right))
      Parse(trimmed) ==
        LET hasScheme == trimmed # <<>> /\ Head(trimmed) = SchemeAtom
            hasDot == \E i \in DOMAIN trimmed : trimmed[i] \in Hosts \cup {"www.", "."}
            rest == IF hasScheme THEN Tail(trimmed) ELSE trimmed
            q == IndexOf(rest, {"?"})
            beforeQuery == SubSeq(rest, 1, q - 1)
            rawQuery == SubSeq(rest, q + 1, Len(rest))
            p == IndexOf(beforeQuery, {"/a"})
            host == SubSeq(beforeQuery, 1, p - 1)
            path == SubSeq(beforeQuery, p, Len(beforeQuery))
            lowered == [i \in DOMAIN host |-> ToLower(host[i])]
            canonicalHost ==
              IF lowered # <<>> /\ Head(lowered) = "www." THEN Tail(lowered) ELSE lowered
            kept == SelectSeq(ParseQuery(rawQuery),
                              LAMBDA param : KeyOf(param[1]) \notin trackingParams)
            query == Join(SortByKey(kept))
        IN IF trimmed = <<>> THEN InvalidURL
           ELSE IF ~hasScheme /\ ~hasDot THEN InvalidURL
           ELSE IF \E i \in DOMAIN rest : rest[i] = "\n" THEN InvalidURL
           ELSE IF \E i \in DOMAIN host : host[i] \in {" ", SchemeAtom} THEN InvalidURL
           ELSE IF host = <<>> THEN InvalidURL
           ELSE [url |-> <<SchemeAtom>> \o canonicalHost \o path
                           \o (IF query = <<>> THEN <<>> ELSE <<"?">> \o query),
                 err |-> FALSE]
  IN Parse(TrimSpace(TrimRight(rawURL, WhiteSpace)))

\* The spellings of one resource: the host in either case, with or without
\* "www.", the parameters in any order.
RECURSIVE Arrangements(_, _)
Arrangements(set, n) ==
  IF n = 0 THEN {<<>>}
  ELSE Arrangements(set, n - 1)
         \cup UNION {{<<x>> \o s : s \in {t \in Arrangements(set, n - 1) :
                                              \A i \in DOMAIN t : t[i] # x}} :
                      x \in set}

\* NormalizeURL on each of the two URLs drawn.
Normalize ==
  /\ ~norm.done
  /\ norm' = [norm EXCEPT !.out = <<NormalizeURL(norm.in[1]), NormalizeURL(norm.in[2])>>,
                          !.done = TRUE]
  /\ UNCHANGED <<store, now, locals, history, app, html, loader, patterns, det, oreq>>

\* Two spellings of one resource.
NormalizeInit ==
  LET NormalizeInputs ==
      LET Spelling(www, host, params) ==
            <<SchemeAtom>> \o (IF www THEN <<"www.">> ELSE <<>>) \o <<host, "/a">>
              \o (IF params = <<>> THEN <<>>
                  ELSE <<"?">> \o Join([i \in DOMAIN params |-> <<params[i]>>]))
          Spellings ==
            {[text |-> Spelling(www, host, params),
              resource |-> {params[i] : i \in {j \in DOMAIN params :
                                                 params[j] \in {"v=1", "b=2"}}}] :
               www \in BOOLEAN, host \in {"youtube.com", "YOUTUBE.com"},
               params \in Arrangements(ParamAtoms, MaxParams)}
      IN UNION {{<<a.text, b.text>> : b \in {c \in Spellings : c.resource = a.resource}} :
                  a \in Spellings}
  IN /\ Idle
     /\ html = NoHtml
     /\ norm \in [in : NormalizeInputs, out : {<<>>}, done : {FALSE}]
     /\ loader = NoLoader
     /\ patterns = [d \in Detectors |-> <<>>]
     /\ det = NoDet
     /\ oreq = NoOEmbed

NormalizeSpec == NormalizeInit /\ [][Normalize]_vars

\* ------------------------------------------- the platform registry
\* The platforms table: two platforms that list the same host and one that
\* lists another; reg is the order in which the rows were registered.
URLPatterns(id) ==
  IF id = "example" THEN <<"example.com">> ELSE <<"youtube.com">>

PlatformUnknown == "unknown"

\* GetDefaultPlatformConfig as loadDefaults caches it: every platform of
\* the built-in set, enabled, with priority 0.
DefaultPlatforms ==
  {[id |-> "youtube", priority |-> 0, reg |-> 1],
   [id |-> "example", priority |-> 0, reg |-> 3]}

\* A Load that hands the store's error to its caller.
LoadReturnsStoreError ==
  /\ loader' = [loader EXCEPT !.result = "error", !.storeErr = TRUE]
  /\ UNCHANGED <<store, now, locals, history, app, html, norm, patterns, det, oreq>>

\* Load, and Refresh, which is Load: GetAllPlatforms answers the rows of the
\* table or an error.  The enabled rows are cached in a map keyed by id; on
\* an error loadDefaults caches the built-in set.  result is what Load
\* returns, storeErr whether the store call failed.
Load ==
  LET PlatformRows ==
      LET PlatformIds == <<"youtube", "shorts", "example">>
      IN {[reg \in DOMAIN PlatformIds |->
             [id |-> PlatformIds[reg], priority |-> prio[reg], reg |-> reg]] :
            prio \in [DOMAIN PlatformIds -> 0..MaxPriority]}
  IN /\ \/ \E rows \in PlatformRows, enabled \in SUBSET {1, 2, 3} :
             loader' = [loaded |-> TRUE,
                        platforms |-> {rows[i] : i \in enabled},
                        result |-> "ok", storeErr |-> FALSE]
        \/ loader' = [loaded |-> TRUE, platforms |-> DefaultPlatforms,
                      result |-> "ok", storeErr |-> TRUE]
     /\ UNCHANGED <<store, now, locals, history, app, html, norm, patterns, det, oreq>>

\* GetAllByPriority's insertion sort: the key moves left past every element
\* of lower priority.
RECURSIVE InsertByPriority(_, _)
InsertByPriority(sorted, key) ==
  IF sorted # <<>> /\ sorted[Len(sorted)].priority < key.priority
  THEN InsertByPriority(SubSeq(sorted, 1, Len(sorted) - 1), key)
         \o <<sorted[Len(sorted)]>>
  ELSE sorted \o <<key>>

RECURSIVE GetAllByPriority(_)
GetAllByPriority(platforms) ==
  IF platforms = <<>> THEN <<>>
  ELSE InsertByPriority(
         GetAllByPriority(SubSeq(platforms, 1, Len(platforms) - 1)),
         platforms[Len(platforms)])

\* buildPatterns' loops: one compiled pattern for each URL pattern of each
\* platform, in the order of the platforms.
RECURSIVE CompilePatterns(_)
CompilePatterns(platforms) ==
  IF platforms = <<>> THEN <<>>
  ELSE [i \in DOMAIN URLPatterns(Head(platforms).id) |->
          [host |-> URLPatterns(Head(platforms).id)[i],
           platform |-> Head(platforms).id]]
         \o CompilePatterns(Tail(platforms))

\* buildPatterns, from New or Refresh: no pattern while the loader has
\* loaded nothing.  GetAll hands GetAllByPriority the cached platforms in
\* the order the iteration over the map yields them, which is any order.
buildPatterns(d) ==
  /\ \/ /\ ~loader.loaded
        /\ patterns' = [patterns EXCEPT ![d] = <<>>]
     \/ /\ loader.loaded
        /\ \E platforms \in
               {order \in [1..Cardinality(loader.platforms) -> loader.platforms] :
                  \A i, j \in DOMAIN order : i # j => order[i] # order[j]} :
             patterns' = [patterns EXCEPT ![d] =
                            CompilePatterns(GetAllByPriority(platforms))]
  /\ UNCHANGED <<store, now, locals, history, app, html, norm, loader, det, oreq>>

\* The regex buildRegexPattern makes of a host pattern, on a URL: the host
\* in either case, anywhere in the URL, with a word boundary behind it.
MatchString(pattern, url) ==
  \E i \in DOMAIN url :
    /\ ToLower(url[i]) = pattern.host
    /\ i = Len(url)
         \/ url[i + 1] \notin Hosts \cup ParamAtoms \cup {"www.", "x", SchemeAtom}

\* detectPlatformFromURL: the platform of the first pattern that matches.
RECURSIVE detectPlatformFromURL(_, _)
detectPlatformFromURL(pats, url) ==
  IF pats = <<>> THEN PlatformUnknown
  ELSE IF MatchString(Head(pats), url) THEN Head(pats).platform
  ELSE detectPlatformFromURL(Tail(pats), url)

RegistrySpec == Init /\ [][\/ Load
                           \/ \E d \in Detectors : buildPatterns(d)]_vars

\* ------------------------------------------------------- URL detection
\* The characters urlRegex and domainRegex allow behind the domain: the
\* length of the longest prefix of s without white space or a bracket.
UrlRun(s) == IndexOf(s, WhiteSpace \cup {"[", "]", "(", ")", "<", ">"}) - 1

\* markdownRegex.FindAllStringSubmatch and ReplaceAllString(content, " ").
\* A match is "[", a text without "]", "](", a target without ")", ")"; the
\* target is the candidate.
RECURSIVE ScanMarkdown(_)
ScanMarkdown(s) ==
  IF s = <<>> THEN [found |-> <<>>, clean |-> <<>>]
  ELSE LET t == Tail(s)
           a == IndexOf(t, {"]"})
           u == SubSeq(t, a + 2, Len(t))
           b == IndexOf(u, {")"})
           len == IF /\ Head(s) = "["
                     /\ a >= 2 /\ a + 1 <= Len(t) /\ t[a + 1] = "("
                     /\ b >= 2 /\ b <= Len(u)
                  THEN 1 + a + 1 + b ELSE 0
           r == ScanMarkdown(SubSeq(s, (IF len > 0 THEN len ELSE 1) + 1, Len(s)))
       IN IF len > 0
          THEN [found |-> <<SubSeq(u, 1, b - 1)>> \o r.found,
                clean |-> <<" ">> \o r.clean]
          ELSE [found |-> r.found, clean |-> <<Head(s)>> \o r.clean]

\* suppressedRegex.ReplaceAllStringFunc: a match is "<", the scheme, a text
\* without ">", ">"; what stands between the angle brackets is the candidate
\* and the match is replaced by a space.
RECURSIVE ScanSuppressed(_)
ScanSuppressed(s) ==
  IF s = <<>> THEN [found |-> <<>>, clean |-> <<>>]
  ELSE LET u == SubSeq(s, 3, Len(s))
           b == IndexOf(u, {">"})
           len == IF /\ Len(s) >= 2 /\ s[1] = "<" /\ s[2] = SchemeAtom
                     /\ b >= 2 /\ b <= Len(u)
                  THEN 2 + b ELSE 0
           r == ScanSuppressed(SubSeq(s, (IF len > 0 THEN len ELSE 1) + 1, Len(s)))
       IN IF len > 0
          THEN [found |-> <<<<SchemeAtom>> \o SubSeq(u, 1, b - 1)>> \o r.found,
                clean |-> <<" ">> \o r.clean]
          ELSE [found |-> r.found, clean |-> <<Head(s)>> \o r.clean]

\* The labels that go on behind a host name: words, host names, and a full
\* stop with a word or a host name behind it.
RECURSIVE LabelRun(_)
LabelRun(s) ==
  IF s # <<>> /\ Head(s) \in Hosts \cup {"x"} THEN 1 + LabelRun(Tail(s))
  ELSE IF Len(s) >= 2 /\ s[1] = "." /\ s[2] \in Hosts \cup {"x"}
       THEN 2 + LabelRun(SubSeq(s, 3, Len(s)))
       ELSE 0

\* urlRegex.FindAllString.  A match is the scheme, a domain (labels with a
\* dot among them), and when a path or a query begins there every character
\* up to white space or a bracket.
RECURSIVE ScanUrls(_)
ScanUrls(s) ==
  IF s = <<>> THEN <<>>
  ELSE LET t == Tail(s)
           w == IF t # <<>> /\ Head(t) = "www." THEN 1 ELSE 0
           d == IF Head(s) = SchemeAtom /\ Len(t) > w /\ t[w + 1] \in Hosts
                THEN w + 1 + LabelRun(SubSeq(t, w + 2, Len(t)))
                ELSE 0
           rest == SubSeq(s, d + 2, Len(s))
           n == IF d = 0 THEN 0
                ELSE IF rest # <<>> /\ Head(rest) \in {"/a", "?"}
                     THEN 1 + d + UrlRun(rest)
                     ELSE 1 + d
       IN IF n > 0 THEN <<SubSeq(s, 1, n)>> \o ScanUrls(SubSeq(s, n + 1, Len(s)))
          ELSE ScanUrls(Tail(s))

\* domainRegex.FindAllStringSubmatch.  A match begins at the start of the
\* text or behind a white space, which it consumes; the candidate is an
\* optional "www.", the name of a known platform in either case, and a path
\* when one begins there.
RECURSIVE ScanPlain(_, _)
ScanPlain(s, atStart) ==
  IF s = <<>> THEN <<>>
  ELSE LET PlainLen(t) ==
             LET w == IF t # <<>> /\ Head(t) = "www." THEN 1 ELSE 0
                 rest == SubSeq(t, w + 2, Len(t))
             IN IF Len(t) > w /\ ToLower(t[w + 1]) = "youtube.com"
                THEN (IF rest # <<>> /\ Head(rest) = "/a"
                      THEN w + 1 + UrlRun(rest) ELSE w + 1)
                ELSE 0
           here == IF atStart THEN PlainLen(s) ELSE 0
           behind == IF Head(s) \in WhiteSpace THEN PlainLen(Tail(s)) ELSE 0
       IN IF here > 0
          THEN <<SubSeq(s, 1, here)>> \o ScanPlain(SubSeq(s, here + 1, Len(s)), FALSE)
          ELSE IF behind > 0
               THEN <<SubSeq(s, 2, behind + 1)>>
                      \o ScanPlain(SubSeq(s, behind + 2, Len(s)), FALSE)
               ELSE ScanPlain(Tail(s), FALSE)

\* url.QueryUnescape on the atoms: "%3F" is an escaped question mark.
QueryUnescape(s) == [i \in DOMAIN s |-> IF s[i] = "%3F" THEN "?" ELSE s[i]]

\* fixMalformedQueryString: behind the first "?" every "?" becomes "&".
fixMalformedQueryString(rawURL) ==
  LET firstQ == IndexOf(rawURL, {"?"})
  IN [i \in DOMAIN rawURL |->
        IF i > firstQ /\ rawURL[i] = "?" THEN "&" ELSE rawURL[i]]

\* An addIfSupported that does not consult seen.
addEveryTime(pats, rawURL, acc) ==
  LET Add(normalized) ==
        IF normalized.err THEN acc
        ELSE [urls |-> Append(acc.urls,
                         [url |-> normalized.url,
                          platform |-> detectPlatformFromURL(pats, normalized.url)]),
              seen |-> acc.seen \cup {normalized.url}]
  IN Add(NormalizeURL(fixMalformedQueryString(QueryUnescape(rawURL))))

\* An addIfSupported that drops a URL no platform matches.
addIfKnown(pats, rawURL, acc) ==
  LET Add(normalized) ==
        IF normalized.err \/ normalized.url \in acc.seen
             \/ detectPlatformFromURL(pats, normalized.url) = PlatformUnknown
        THEN acc
        ELSE [urls |-> Append(acc.urls,
                         [url |-> normalized.url,
                          platform |-> detectPlatformFromURL(pats, normalized.url)]),
              seen |-> acc.seen \cup {normalized.url}]
  IN Add(NormalizeURL(fixMalformedQueryString(QueryUnescape(rawURL))))

\* addIfSupported: decode, repair the query, normalize; an invalid URL and a
\* URL already seen are skipped, any other is appended with its platform.
addIfSupported(pats, rawURL, acc) ==
  LET Add(normalized) ==
        IF normalized.err THEN acc
        ELSE IF normalized.url \in acc.seen THEN acc
        ELSE [urls |-> Append(acc.urls,
                         [url |-> normalized.url,
                          platform |-> detectPlatformFromURL(pats, normalized.url)]),
              seen |-> acc.seen \cup {normalized.url}]
  IN Add(NormalizeURL(fixMalformedQueryString(QueryUnescape(rawURL))))

RECURSIVE AddAll(_, _, _)
AddAll(pats, candidates, acc) ==
  IF candidates = <<>> THEN acc
  ELSE AddAll(pats, Tail(candidates), addIfSupported(pats, Head(candidates), acc))

\* DetectURLs: the five stages, each adding its candidates in turn.  Stage 5
\* takes the candidates of urlRegex on the content without its line breaks,
\* when it has any.
DetectURLs(pats, content) ==
  LET \* cleanTrailingPunctuation: a closing parenthesis of a balanced pair
      \* stays; otherwise the trailing full stops and question marks go.
      cleanTrailingPunctuation(urlStr) ==
        IF /\ Count(urlStr, "(") > 0
           /\ urlStr[Len(urlStr)] = ")"
           /\ Count(urlStr, "(") >= Count(urlStr, ")")
        THEN urlStr
        ELSE TrimRight(urlStr, {".", "?"})
      CleanAll(matches) ==
        [i \in DOMAIN matches |-> cleanTrailingPunctuation(matches[i])]
      markdown == ScanMarkdown(content)
      suppressed == ScanSuppressed(markdown.clean)
      cleanContent == suppressed.clean
      unwrappedContent == SelectSeq(content, LAMBDA atom : atom # "\n")
      stage1 == AddAll(pats, markdown.found, [urls |-> <<>>, seen |-> {}])
      stage2 == AddAll(pats, suppressed.found, stage1)
      stage3 == AddAll(pats, CleanAll(ScanUrls(cleanContent)), stage2)
      stage4 == AddAll(pats, CleanAll(ScanPlain(cleanContent, TRUE)), stage3)
      stage5 == AddAll(pats,
                       IF \E i \in DOMAIN content : content[i] = "\n"
                       THEN CleanAll(ScanUrls(unwrappedContent))
                       ELSE <<>>,
                       stage4)
  IN stage5.urls

\* The canonical URLs of the two links the messages are written with.
YouTubeLink == <<SchemeAtom, "youtube.com", "/a">>
ExampleLink == <<SchemeAtom, "example.com", "/a">>

RECURSIVE Flatten(_)
Flatten(parts) ==
  IF parts = <<>> THEN <<>> ELSE Head(parts).atoms \o Flatten(Tail(parts))

\* One call of DetectURLs on the message drawn, by the first detector.
CallDetectURLs ==
  /\ ~det.done
  /\ det' = [det EXCEPT !.urls = DetectURLs(patterns[1], det.content),
                        !.done = TRUE]
  /\ UNCHANGED <<store, now, locals, history, app, html, norm, loader, patterns, oreq>>

\* The messages.  A message is made of parts: a link in one of its forms, a
\* malformed markdown target, white space, a word, a full stop.  link is the
\* canonical URL of the link written, empty where none is.
\* The first detector is built over a loader that holds one platform,
\* youtube.
DetectInit ==
  LET Messages ==
      LET Parts ==
            {[atoms |-> <<SchemeAtom, "youtube.com", "/a">>, link |-> YouTubeLink],
             [atoms |-> <<SchemeAtom, "www.", "YOUTUBE.com", "/a", "?", "si=x">>,
              link |-> YouTubeLink],
             [atoms |-> <<"[", "x", "]", "(", SchemeAtom, "youtube.com", "/a", "?", "si=x", ")">>,
              link |-> YouTubeLink],
             [atoms |-> <<"<", SchemeAtom, "www.", "youtube.com", "/a", ">">>,
              link |-> YouTubeLink],
             [atoms |-> <<"www.", "youtube.com", "/a">>, link |-> YouTubeLink],
             [atoms |-> <<SchemeAtom, "youtube.com", "/a", "%3F", "si=x">>,
              link |-> YouTubeLink],
             [atoms |-> <<SchemeAtom, "example.com", "/a">>, link |-> ExampleLink],
             [atoms |-> <<"[", "x", "]", "(", "x", ")">>, link |-> <<>>],
             [atoms |-> <<"[", "x", "]", "(", SchemeAtom, ")">>, link |-> <<>>],
             [atoms |-> <<" ">>, link |-> <<>>],
             [atoms |-> <<"\n">>, link |-> <<>>],
             [atoms |-> <<"x">>, link |-> <<>>],
             [atoms |-> <<".">>, link |-> <<>>]}
      IN UNION {[1..n -> Parts] : n \in 0..MaxParts}
  IN LET row == [id |-> "youtube", priority |-> 0, reg |-> 1]
     IN /\ Idle
        /\ html = NoHtml
        /\ norm = NoNorm
        /\ loader = [NoLoader EXCEPT !.loaded = TRUE, !.platforms = {row},
                                     !.result = "ok"]
        /\ patterns = [d \in Detectors |->
                         IF d = 1 THEN CompilePatterns(<<row>>) ELSE <<>>]
        /\ det \in {[parts |-> m, content |-> Flatten(m), urls |-> <<>>, done |-> FALSE] :
                      m \in Messages}
        /\ oreq = NoOEmbed

DetectSpec == DetectInit /\ [][CallDetectURLs]_vars

\* A DetectURLs that asks the loader for the platforms of the moment.
ScanWithLoaderPlatforms ==
  /\ \E content \in {YouTubeLink, ExampleLink, YouTubeLink \o <<" ">> \o ExampleLink} :
       det' = [parts |-> <<>>, content |-> content,
               urls |-> DetectURLs(
                          CompilePatterns(
                            GetAllByPriority(
                              CHOOSE order \in [1..Cardinality(loader.platforms)
                                                  -> loader.platforms] :
                                \A i, j \in DOMAIN order : i # j => order[i] # order[j])),
                          content),
               done |-> TRUE]
  /\ UNCHANGED <<store, now, locals, history, app, html, norm, loader, patterns, oreq>>

\* DetectURLs called by the first detector on a message of the chat, any
\* number of times: the tags come from d.patterns.
ScanMessage ==
  /\ \E content \in {YouTubeLink, ExampleLink, YouTubeLink \o <<" ">> \o ExampleLink} :
       det' = [parts |-> <<>>, content |-> content,
               urls |-> DetectURLs(patterns[1], content), done |-> TRUE]
  /\ UNCHANGED <<store, now, locals, history, app, html, norm, loader, patterns, oreq>>

\* One process: Load at start-up and on every admin change, one detector
\* built by New and rebuilt by Refresh, and the messages it scans.
LoaderSpec == Init /\ [][\/ Load
                         \/ buildPatterns(1)
                         \/ ScanMessage]_vars

\* ------------------------------------------------- the two RWMutexes
\* Where a goroutine stands in a call tells which lock it holds or waits
\* for.  d is Detector.mu, l is Loader.mu.  Want: the call is at RLock or
\* Lock.  Write: Lock has announced the writer (new readers wait) or holds
\* the lock.  Locked: Lock has returned.  Read: RLock has returned.
Locks ==
  [dWant |-> {"du_call", "du_relock", "is_call", "bp_call", "bp_announced"},
   dRead |-> {"du_r", "du_relock", "du_rr", "is_r"},
   dWrite |-> {"bp_announced", "bp_locked", "bp_loaded_r", "bp_getall",
               "bp_getall_r", "bp_compile"},
   dLocked |-> {"bp_locked", "bp_loaded_r", "bp_getall", "bp_getall_r", "bp_compile"},
   lWant |-> {"bp_locked", "bp_getall", "ld_call", "ld_announced", "lg_call"},
   lRead |-> {"bp_loaded_r", "bp_getall_r", "lg_r"},
   lWrite |-> {"ld_announced", "ld_locked"},
   lLocked |-> {"ld_locked"}]

\* A DetectURLs whose detectPlatformFromURL takes the read lock again.
DetectorReadRelocking(g) ==
  /\ \/ /\ pc[g] = "idle"
        /\ \E call \in {"du_call", "is_call"} : pc' = [pc EXCEPT ![g] = call]
     \/ /\ pc[g] \in {"du_call", "is_call"}
        /\ \A h \in Procs : pc[h] \notin Locks.dWrite
        /\ pc' = [pc EXCEPT ![g] = IF pc[g] = "du_call" THEN "du_relock" ELSE "is_r"]
     \/ /\ pc[g] = "du_relock"
        /\ \A h \in Procs : pc[h] \notin Locks.dWrite
        /\ pc' = [pc EXCEPT ![g] = "du_rr"]
     \/ /\ pc[g] = "du_rr"
        /\ pc' = [pc EXCEPT ![g] = "du_r"]
     \/ /\ pc[g] \in {"du_r", "is_r"}
        /\ pc' = [pc EXCEPT ![g] = "idle"]
  /\ UNCHANGED <<store, now, arg, snap, batch, held, loop, cycle, history, app, pure>>

\* DetectURLs and IsSupported: RLock, the scan with no further locking
\* (detectPlatformFromURL takes none), the deferred RUnlock.  RLock waits
\* while a writer has announced itself or holds the lock.
DetectorRead(g) ==
  /\ \/ /\ pc[g] = "idle"
        /\ \E call \in {"du_call", "is_call"} : pc' = [pc EXCEPT ![g] = call]
     \/ /\ pc[g] \in {"du_call", "is_call"}
        /\ \A h \in Procs : pc[h] \notin Locks.dWrite
        /\ pc' = [pc EXCEPT ![g] = IF pc[g] = "du_call" THEN "du_r" ELSE "is_r"]
     \/ /\ pc[g] \in {"du_r", "is_r"}
        /\ pc' = [pc EXCEPT ![g] = "idle"]
  /\ UNCHANGED <<store, now, arg, snap, batch, held, loop, cycle, history, app, pure>>

\* Detector.Refresh, which is buildPatterns: Lock (one writer at a time
\* announces itself, then waits for the readers to leave), IsLoaded under
\* the loader's read lock, GetAllByPriority's GetAll under the loader's read
\* lock when the loader is loaded, the compilation, the deferred Unlock.  The
\* platform table is empty, so the list compiled is.
DetectorRefresh(g) ==
  /\ \/ /\ pc[g] = "idle"
        /\ pc' = [pc EXCEPT ![g] = "bp_call"]
        /\ UNCHANGED patterns
     \/ /\ pc[g] = "bp_call"
        /\ \A h \in Procs : pc[h] \notin Locks.dWrite
        /\ pc' = [pc EXCEPT ![g] = "bp_announced"]
        /\ UNCHANGED patterns
     \/ /\ pc[g] = "bp_announced"
        /\ \A h \in Procs : pc[h] \notin Locks.dRead
        /\ pc' = [pc EXCEPT ![g] = "bp_locked"]
        /\ UNCHANGED patterns
     \/ /\ pc[g] \in {"bp_locked", "bp_getall"}
        /\ \A h \in Procs : pc[h] \notin Locks.lWrite
        /\ pc' = [pc EXCEPT ![g] = IF pc[g] = "bp_locked" THEN "bp_loaded_r"
                                                          ELSE "bp_getall_r"]
        /\ UNCHANGED patterns
     \/ /\ pc[g] = "bp_loaded_r"
        /\ pc' = [pc EXCEPT ![g] = IF loader.loaded THEN "bp_getall" ELSE "bp_compile"]
        /\ UNCHANGED patterns
     \/ /\ pc[g] = "bp_getall_r"
        /\ pc' = [pc EXCEPT ![g] = "bp_compile"]
        /\ UNCHANGED patterns
     \/ /\ pc[g] = "bp_compile"
        /\ patterns' = [patterns EXCEPT ![1] = <<>>]
        /\ pc' = [pc EXCEPT ![g] = "idle"]
  /\ UNCHANGED <<store, now, arg, snap, batch, held, loop, cycle, history, app,
                 html, norm, loader, det, oreq>>

\* Loader.Load and Loader.Refresh: Lock, the store call and the caching
\* under the lock, the deferred Unlock.  The table read has no enabled row;
\* no detector is called.
LoaderLoad(g) ==
  /\ \/ /\ pc[g] = "idle"
        /\ pc' = [pc EXCEPT ![g] = "ld_call"]
        /\ UNCHANGED loader
     \/ /\ pc[g] = "ld_call"
        /\ \A h \in Procs : pc[h] \notin Locks.lWrite
        /\ pc' = [pc EXCEPT ![g] = "ld_announced"]
        /\ UNCHANGED loader
     \/ /\ pc[g] = "ld_announced"
        /\ \A h \in Procs : pc[h] \notin Locks.lRead
        /\ pc' = [pc EXCEPT ![g] = "ld_locked"]
        /\ UNCHANGED loader
     \/ /\ pc[g] = "ld_locked"
        /\ loader' = [loaded |-> TRUE, platforms |-> {}, result |-> "ok",
                      storeErr |-> FALSE]
        /\ pc' = [pc EXCEPT ![g] = "idle"]
  /\ UNCHANGED <<store, now, arg, snap, batch, held, loop, cycle, history, app,
                 html, norm, patterns, det, oreq>>

\* The loader's getters called on their own (Get, GetAll, GetAllByPriority,
\* IsLoaded, Count): RLock, the read, the deferred RUnlock.
LoaderGet(g) ==
  /\ \/ /\ pc[g] = "idle"
        /\ pc' = [pc EXCEPT ![g] = "lg_call"]
     \/ /\ pc[g] = "lg_call"
        /\ \A h \in Procs : pc[h] \notin Locks.lWrite
        /\ pc' = [pc EXCEPT ![g] = "lg_r"]
     \/ /\ pc[g] = "lg_r"
        /\ pc' = [pc EXCEPT ![g] = "idle"]
  /\ UNCHANGED <<store, now, arg, snap, batch, held, loop, cycle, history, app, pure>>

\* Goroutines that call the detector and the loader at any time.
LockSpec == Init /\ [][\E g \in Procs : \/ DetectorRead(g)
                                        \/ DetectorRefresh(g)
                                        \/ LoaderLoad(g)
                                        \/ LoaderGet(g)]_vars

\* ------------------------------------------------- the oEmbed request
\* A url.QueryEscape that leaves every character as it is.
NoEscape(s) == s

\* url.QueryEscape on the atoms of a text: the reserved characters are
\* written as percent escapes, a space as "+"; a percent sign is escaped too.
QueryEscape(s) ==
  [i \in DOMAIN s |->
     CASE s[i] = "https://y.com/w" -> "https%3A%2F%2Fy.com%2Fw"
       [] s[i] = "?" -> "%3F"
       [] s[i] = "=" -> "%3D"
       [] s[i] = "&" -> "%26"
       [] s[i] = "%3F" -> "%253F"
       [] s[i] = " " -> "+"
       [] OTHER -> s[i]]

\* buildOEmbedURL: ReplaceAll of the placeholder, url.Parse (a control
\* character fails), Query() (the parameters of the endpoint, split at "&"
\* and at the first "="), Set of url and format (each replaces every value
\* of its key), Encode (sorted by key, key and value escaped) and String().
buildOEmbedURL(endpoint, resourceURL) ==
  LET replaced ==
        [i \in DOMAIN endpoint |->
           CASE endpoint[i] = "{format}" -> "json"
             [] endpoint[i] = ".{format}" -> ".json"
             [] OTHER -> endpoint[i]]
      Build(path, pairs) ==
        LET Key(param) == SubSeq(param, 1, IndexOf(param, {"="}) - 1)
            Value(param) == SubSeq(param, IndexOf(param, {"="}) + 1, Len(param))
            Encoded(param) == QueryEscape(Key(param)) \o <<"=">> \o QueryEscape(Value(param))
            OfKey(k) == SelectSeq(pairs, LAMBDA param : Key(param) = <<k>>)
            values == [i \in DOMAIN OfKey("a") |-> Encoded(OfKey("a")[i])]
                        \o <<<<"format", "=">> \o QueryEscape(<<"json">>),
                             <<"url", "=">> \o QueryEscape(resourceURL)>>
                        \o [i \in DOMAIN OfKey("z") |-> Encoded(OfKey("z")[i])]
        IN [url |-> path \o <<"?">> \o Join(values), err |-> FALSE]
      Parse(text) ==
        IF \E i \in DOMAIN text : text[i] = "\t" THEN [url |-> <<>>, err |-> TRUE]
        ELSE Build(SubSeq(text, 1, IndexOf(text, {"?"}) - 1),
                   ParseQuery(SubSeq(text, IndexOf(text, {"?"}) + 1, Len(text))))
  IN Parse(replaced)

\* An endpoint of the provider catalog, with or without a placeholder and
\* parameters of its own, and a resource URL: any text of the atoms.
OEmbedInit ==
  LET base == "https://p.com/oembed"
      Endpoints ==
        {<<base>>, <<base, ".{format}">>, <<base, "/", "{format}">>,
         <<base, "?", "format", "=", "{format}">>,
         <<base, "?", "format", "=", "xml", "&", "url", "=", "v">>,
         <<base, "?", "url", "=", "v", "&", "url", "=", "v">>,
         <<base, ".{format}", "?", "z", "=", "v", "&", "a", "=", "v", "&", "a">>}
      Texts ==
        UNION {[1..n -> {"https://y.com/w", "?", "=", "&", "%3F", " ", "v"}] :
                 n \in 0..MaxText}
  IN /\ Idle
     /\ html = NoHtml
     /\ norm = NoNorm
     /\ loader = NoLoader
     /\ patterns = [d \in Detectors |-> <<>>]
     /\ det = NoDet
     /\ oreq \in {[NoOEmbed EXCEPT !.endpoint = e, !.resourceURL = r] :
                      e \in Endpoints, r \in Texts}

\* TryExtract calls buildOEmbedURL with the endpoint of the provider.
OEmbedSpec ==
  /\ OEmbedInit
  /\ [][/\ ~oreq.done
        /\ oreq' = [oreq EXCEPT
                        !.url = buildOEmbedURL(oreq.endpoint, oreq.resourceURL).url,
                        !.err = buildOEmbedURL(oreq.endpoint, oreq.resourceURL).err,
                        !.done = TRUE]
        /\ UNCHANGED <<store, now, locals, history, app, html, norm, loader, patterns,
                       det>>]_vars

\* ------------------------------------------------- knoks and their jobs
\* The knok_id in the payload of the job that draws the id.
KnokOf(id) == ((id - 1) % NumKnoks) + 1

\* A mode that is the global default whatever the server has set.
globalDefaultOnly(default, setting) == default

\* processDetectedURL, the mode for an unknown platform: the global default,
\* or the server's unknown_platform_mode if GetByID returns the server and
\* its settings hold one ("none": no server repository, no row, a failed
\* lookup, no such key, or a value that is not a string).
unknownPlatformMode(default, setting) ==
  IF setting # "none" THEN setting ELSE default

\* processDetectedURL for a URL of knok k, in is the platform the detector
\* tagged the URL with and the two settings.  An unknown platform in strict
\* mode returns nil at once.  Otherwise the lookups assign a shadowed
\* existingKnok, so the function always tries Create (which fails on a row
\* that exists and is then found by GetByID) and always queues a job.
processDetectedURL(k, id, in) ==
  /\ KnokOf(id) = k
  /\ bot' = [in EXCEPT !.returned = "nil"]
  /\ IF /\ in.platform = PlatformUnknown
        /\ unknownPlatformMode(in.default, in.setting) = "strict"
     THEN UNCHANGED <<store, now, locals, history, knoks>>
     ELSE /\ Enqueue(id)
          /\ knoks' = [knoks EXCEPT ![k] =
                         IF @ = NoKnok
                         THEN [NoKnok EXCEPT !.status = ExtractionStatusPending]
                         ELSE @]
  /\ UNCHANGED <<hsnap, ext, svc, pure>>

\* processDetectedURL for a link of a platform the detector knows.
Detect(k, id) ==
  processDetectedURL(k, id, [NoBot EXCEPT !.platform = "youtube",
                                          !.default = "permissive",
                                          !.setting = "none"])

\* processDetectedURL, Enqueue returns an error: the knok is marked failed.
DetectEnqueueError(k, id) ==
  /\ KnokOf(id) = k
  /\ EnqueueError(id)
  /\ knoks' = [knoks EXCEPT ![k] =
                 [(IF @ = NoKnok THEN [NoKnok EXCEPT !.status = ExtractionStatusPending] ELSE @) EXCEPT
                    !.status = ExtractionStatusFailed]]
  /\ bot' = [NoBot EXCEPT !.platform = "youtube", !.default = "permissive",
                          !.setting = "none", !.returned = "error"]
  /\ UNCHANGED <<hsnap, ext, svc, pure>>

\* RefreshKnok: the knok is reset to pending and a job is queued.
RefreshKnok(k, id) ==
  /\ knoks[k] # NoKnok
  /\ KnokOf(id) = k
  /\ Enqueue(id)
  /\ knoks' = [knoks EXCEPT ![k].status = ExtractionStatusPending]
  /\ UNCHANGED <<hsnap, ext, bot, svc, pure>>

\* RefreshKnok, Enqueue returns an error: the status is rolled to failed.
RefreshKnokEnqueueError(k, id) ==
  /\ knoks[k] # NoKnok
  /\ KnokOf(id) = k
  /\ EnqueueError(id)
  /\ knoks' = [knoks EXCEPT ![k].status = ExtractionStatusFailed]
  /\ UNCHANGED <<hsnap, ext, bot, svc, pure>>

\* The bot and the API without a worker: messages with links of a known and
\* of an unknown platform, in servers with and without a mode of their own,
\* under either default, while Enqueue may fail.
BotSpec ==
  Init /\ [][\E k \in KnokIds, id \in JobIds :
               \/ \E in \in [platform : {"youtube", PlatformUnknown},
                             default : {"strict", "permissive"},
                             setting : {"none", "strict", "permissive"},
                             returned : {"none"}] :
                    processDetectedURL(k, id, in)
               \/ DetectEnqueueError(k, id)
               \/ RefreshKnok(k, id)
               \/ RefreshKnokEnqueueError(k, id)]_vars

\* A handler error is drawn only while the bound on failing jobs allows it.
MayFail ==
  Cardinality({j \in DOMAIN handlerResult : handlerResult[j] = "error"})
    < MaxHandlerErrors

\* ProcessMetadataExtraction returns to processJob.
HandlerReturns(w, processingErr) ==
  /\ pc' = [pc EXCEPT ![w] = IF processingErr THEN "pj_fail" ELSE "pj_complete"]
  /\ handlerResult' = [handlerResult EXCEPT ![held[w].id] =
                         IF processingErr THEN "error" ELSE "ok"]

\* ProcessMetadataExtraction: UpdateExtractionStatus(processing); a failure
\* is logged and the handler goes on.
MetaMarkProcessing(w) ==
  /\ pc[w] = "pj_handler"
  /\ \E updated \in BOOLEAN :
       knoks' = [knoks EXCEPT ![KnokOf(held[w].id)].status =
                   IF updated /\ @ # "absent" THEN ExtractionStatusProcessing ELSE @]
  /\ pc' = [pc EXCEPT ![w] = "mh_get"]
  /\ UNCHANGED <<store, now, arg, snap, batch, held, loop, cycle, history, hsnap, ext, bot, svc, pure>>

\* ProcessMetadataExtraction: the extraction has run; GetByID reads the knok,
\* and an error (no row, or the database fails) is returned to processJob.
MetaGetByID(w) ==
  /\ pc[w] = "mh_get"
  /\ \/ /\ knoks[KnokOf(held[w].id)] # NoKnok
        /\ hsnap' = [hsnap EXCEPT ![w] = knoks[KnokOf(held[w].id)]]
        /\ pc' = [pc EXCEPT ![w] = "mh_update"]
        /\ UNCHANGED handlerResult
     \/ /\ MayFail
        /\ HandlerReturns(w, TRUE)
        /\ UNCHANGED hsnap
  /\ UNCHANGED <<store, now, arg, snap, batch, held, loop, cycle, failCalls, known,
                 enqueueResult, knoks, ext, bot, svc, pure>>

\* ProcessMetadataExtraction: Update writes every column of the row (the row
\* read, with the title and the metadata of this extraction and the status
\* complete); an error of Update is returned to processJob.  The extraction
\* meets a page whose static parse finds every field, or a URL on which
\* every tier fails.
MetaUpdate(w) ==
  LET KnokPages ==
      LET RichPage ==
            [oembed |-> [kind |-> "unmatched", resp |-> NoResponse],
             http |-> [kind |-> "ok", meta |-> [f \in Fields |-> "h"]],
             rod |-> [kind |-> "error", meta |-> EmptyMeta],
             title |-> [kind |-> "ok", raw |-> "t"]]
          DeadPage ==
            [oembed |-> [kind |-> "unmatched", resp |-> NoResponse],
             http |-> [kind |-> "error", meta |-> EmptyMeta],
             rod |-> [kind |-> "error", meta |-> EmptyMeta],
             title |-> [kind |-> "error", raw |-> ""]]
      IN {RichPage, DeadPage}
      ExtractedKnok(knok, result) ==
        [status |-> ExtractionStatusComplete,
         title |-> result.meta.title,
         description |-> result.meta.description,
         image |-> result.meta.image,
         site_name |-> result.meta.site_name,
         method |-> result.method]
  IN /\ pc[w] = "mh_update"
     /\ \/ /\ \E page \in KnokPages :
                knoks' = [knoks EXCEPT ![KnokOf(held[w].id)] =
                            IF @ = NoKnok THEN @
                            ELSE ExtractedKnok(hsnap[w], extractMetadataWithFallbacks(page))]
           /\ HandlerReturns(w, FALSE)
        \/ /\ MayFail
           /\ HandlerReturns(w, TRUE)
           /\ UNCHANGED knoks
     /\ hsnap' = [hsnap EXCEPT ![w] = NoKnok]
     /\ UNCHANGED <<store, now, arg, snap, batch, held, loop, cycle, failCalls, known,
                    enqueueResult, ext, bot, svc, pure>>

\* The worker on metadata jobs.
MetadataWorker(w) ==
  \/ WorkerQueueSteps(w)
  \/ MetaMarkProcessing(w)
  \/ MetaGetByID(w)
  \/ MetaUpdate(w)

\* Time passes until the next scheduled retry is due.
AdvanceToDue ==
  /\ \E j \in DOMAIN retry :
       /\ retry[j] > now
       /\ \A i \in DOMAIN retry : retry[i] > now => retry[j] <= retry[i]
       /\ now' = retry[j]
  /\ UNCHANGED <<store, locals, history, app, pure>>

\* The bot, the API, one worker on metadata jobs, and a retry promoter that
\* is called from outside the worker service.
KnokNext ==
  \/ \E k \in KnokIds, id \in JobIds :
       \/ Detect(k, id)
       \/ DetectEnqueueError(k, id)
       \/ RefreshKnok(k, id)
       \/ RefreshKnokEnqueueError(k, id)
  \/ MetadataWorker(1)
  \/ CallProcessRetryJobs(2)
  \/ CallProcessRetryJobsExec(2)
  \/ AdvanceToDue

KnokSpec == Init /\ [][KnokNext]_vars

\* The same with the worker's loop, the promoter and the clock kept going.
FairKnokSpec ==
  /\ Init
  /\ [][KnokNext]_vars
  /\ WF_vars(MetadataWorker(1))
  /\ WF_vars(CallProcessRetryJobs(2) \/ CallProcessRetryJobsExec(2))
  /\ WF_vars(AdvanceToDue)

\* One worker process and the producers while the store may be unreachable:
\* Enqueue and Dequeue calls may return an error.
FaultSpec == Init /\ [][\/ Tick
                        \/ CallEnqueue
                        \/ \E id \in JobIds : EnqueueError(id) /\ UNCHANGED <<app, pure>>
                        \/ Worker(1)
                        \/ WorkerDequeueUnavailable(1)]_vars

\* Producers, one worker process, and a retry promoter that is called from
\* outside the worker service.
PromoterSpec == Init /\ [][\/ Tick
                           \/ CallEnqueue
                           \/ Worker(1)
                           \/ CallProcessRetryJobs(2)
                           \/ CallProcessRetryJobsExec(2)]_vars

\* A caller of Complete and Fail that passes any id, stored or not, and sees
\* the error they return.
CallWithAnyId(p) ==
  /\ \/ /\ stats.completed < MaxCompleteCalls
        /\ \E id \in JobIds : CompleteGet(p, id, "idle", "cp_exec", "cp_err")
     \/ \E id \in JobIds :
          /\ failCalls[id] < MaxFailCalls
          /\ FailGet(p, id, "idle", "fl_exec", "fl_err")
     \/ /\ pc[p] \in {"cp_err", "fl_err"}
        /\ pc' = [pc EXCEPT ![p] = "idle"]
        /\ UNCHANGED <<store, now, arg, snap, batch, history>>
  /\ UNCHANGED <<held, loop, cycle, app, pure>>

\* Producers, one consumer, job hashes that expire, and Complete and Fail
\* called with any id.  The TTL that Enqueue and Complete put on job:<id>
\* runs out: the hash is gone, whatever list holds the id keeps it.
CallerSpec == Init /\ [][\/ \E id \in 1..SeqJobs : /\ enqueueResult[id] = "none"
                                                  /\ Enqueue(id)
                                                  /\ UNCHANGED <<app, pure>>
                         \/ CallDequeue(1)
                         \/ CallDequeueGet(1)
                         \/ CallDequeueUpdate(1)
                         \/ \E id \in JobIds :
                              /\ jobs[id] # NoData
                              /\ jobs' = [jobs EXCEPT ![id] = NoData]
                              /\ UNCHANGED <<queue, processing, retry, dead, stats, now,
                                             locals, history, app, pure>>
                         \/ CallWithAnyId(1)
                         \/ CallCompleteExec(1)
                         \/ CallFailExec(1)]_vars

\* ------------------------------------------------ stopping the service
\* Stop: w.cancel().
Stop ==
  /\ ~svc.cancelled
  /\ svc' = [svc EXCEPT !.cancelled = TRUE]
  /\ UNCHANGED <<store, now, locals, history, knoks, hsnap, ext, bot, pure>>

\* The 5-second ticker puts a tick in its channel.  The period is long
\* against a select that finds ctx.Done ready and against a cycle started on
\* a cancelled context (every call fails at once): once the context is
\* cancelled a tick arrives only while the cycle that was under way runs.
TickerFires(w) ==
  /\ svc.tick = 0
  /\ svc.cancelled => pc[w] # "idle"
  /\ svc' = [svc EXCEPT !.tick = 1]
  /\ UNCHANGED <<store, now, locals, history, knoks, hsnap, ext, bot, pure>>

\* A processJobs whose select has no ctx.Done case.
processJobsWithoutDone(w) ==
  /\ pc[w] = "idle"
  /\ svc.tick = 1
  /\ svc' = [svc EXCEPT !.tick = 0,
                         !.further = IF svc.cancelled THEN @ + 1 ELSE @]
  /\ IF svc.cancelled \/ queue = <<>>
     THEN UNCHANGED <<pc, loop, cycle>>
     ELSE /\ loop' = [loop EXCEPT ![w] = Min(Len(queue), maxJobsPerCycle)]
          /\ cycle' = [cycle EXCEPT ![w] =
                         [depth |-> Len(queue), calls |-> 0, failed |-> FALSE]]
          /\ pc' = [pc EXCEPT ![w] = "w_dequeue"]
  /\ UNCHANGED <<store, now, arg, snap, batch, held, history, knoks, hsnap, ext, bot,
                 pure>>

\* processJobs, the select: on ctx.Done the loop returns; on a tick
\* processPendingJobs runs, and processJobType's GetPendingCount either
\* fails (the context is cancelled) or answers 0, which ends the cycle at
\* once, or answers the depth that sets the iterations.  With both cases
\* ready select takes either.
processJobs(w) ==
  /\ pc[w] = "idle"
  /\ \/ /\ svc.cancelled
        /\ pc' = [pc EXCEPT ![w] = "returned"]
        /\ UNCHANGED <<svc, loop, cycle>>
     \/ /\ svc.tick = 1
        /\ svc' = [svc EXCEPT !.tick = 0,
                               !.further = IF svc.cancelled THEN @ + 1 ELSE @]
        /\ IF svc.cancelled \/ queue = <<>>
           THEN UNCHANGED <<pc, loop, cycle>>
           ELSE /\ loop' = [loop EXCEPT ![w] = Min(Len(queue), maxJobsPerCycle)]
                /\ cycle' = [cycle EXCEPT ![w] =
                               [depth |-> Len(queue), calls |-> 0, failed |-> FALSE]]
                /\ pc' = [pc EXCEPT ![w] = "w_dequeue"]
  /\ UNCHANGED <<store, now, arg, snap, batch, held, history, knoks, hsnap, ext, bot,
                 pure>>

\* The next command of the cycle under way is issued on the cancelled
\* context and fails without reaching the store.  Inside Dequeue a failed
\* HGET returns the error (continue) and a failed pipeline is only logged,
\* so the job is handed to processJob.  Inside processJob a failed Complete
\* before the handler is logged, and a failed Fail or Complete after it ends
\* the iteration.
CancelledCall(w) ==
  LET ends == pc[w] \in {"w_dq_get", "pj_fail", "pj_fail_exec", "pj_complete",
                         "pj_complete_exec"}
  IN /\ svc.cancelled
     /\ pc[w] \in {"w_dq_get", "w_dq_upd", "pj_mark", "pj_mark_exec", "pj_fail",
                    "pj_fail_exec", "pj_complete", "pj_complete_exec"}
     /\ pc' = [pc EXCEPT ![w] =
                 CASE pc[w] = "w_dq_upd" -> "pj_mark"
                   [] pc[w] \in {"pj_mark", "pj_mark_exec"} -> "pj_handler"
                   [] OTHER -> NextIter(w)]
     /\ held' = [held EXCEPT ![w] =
                   IF pc[w] = "w_dq_upd"
                   THEN [id |-> arg[w], status |-> JobStatusProcessing]
                   ELSE IF ends THEN NoHeld ELSE @]
     /\ known' = IF pc[w] = "w_dq_upd" THEN known \cup {arg[w]} ELSE known
     /\ arg' = [arg EXCEPT ![w] = NoJob]
     /\ snap' = [snap EXCEPT ![w] = NoData]
     /\ loop' = [loop EXCEPT ![w] = IF ends THEN @ - 1 ELSE @]
     /\ cycle' = [cycle EXCEPT ![w] = IF ends /\ NextIter(w) = "idle" THEN NoCycle ELSE @]
     /\ UNCHANGED <<store, now, batch, failCalls, handlerResult, enqueueResult, app, pure>>

\* Producers and one worker service that is stopped at some time.  The
\* goroutine of processJobs keeps being scheduled, the handler returns, and
\* a select with one case ready takes it.
StopSpec ==
  /\ Init
  /\ [][\/ CallEnqueue
        \/ Stop
        \/ TickerFires(1)
        \/ processJobs(1)
        \/ ~svc.cancelled /\ WorkerDequeue(1)
        \/ ~svc.cancelled /\ WorkerDequeueGet(1)
        \/ ~svc.cancelled /\ WorkerDequeueUpdate(1)
        \/ ~svc.cancelled /\ WorkerMark(1)
        \/ ~svc.cancelled /\ WorkerMarkExec(1)
        \/ ~svc.cancelled /\ WorkerFail(1)
        \/ ~svc.cancelled /\ WorkerFailExec(1)
        \/ ~svc.cancelled /\ WorkerComplete(1)
        \/ ~svc.cancelled /\ WorkerCompleteExec(1)
        \/ WorkerHandler(1)
        \/ svc.cancelled /\ WorkerDequeueUnavailable(1)
        \/ CancelledCall(1)]_vars
  /\ WF_vars(\/ processJobs(1)
             \/ WorkerHandler(1)
             \/ svc.cancelled /\ WorkerDequeueUnavailable(1)
             \/ CancelledCall(1))

\* One worker process in front of a pending list that producers have filled
\* with up to CycleJobs jobs, more than the per-cycle cap.
CycleInit ==
  \E n \in 0..CycleJobs :
    /\ queue = [i \in 1..n |-> n + 1 - i]
    /\ processing = <<>>
    /\ retry = [m \in {} |-> 0]
    /\ dead = <<>>
    /\ jobs = [j \in 1..CycleJobs |->
                 IF j <= n
                 THEN [status |-> JobStatusPending, retry_count |-> 0, error |-> ""]
                 ELSE NoData]
    /\ stats = [NoStats EXCEPT !.total_enqueued = n, !.pending = n]
    /\ now = 0
    /\ pc = [p \in Procs |-> "idle"]
    /\ arg = [p \in Procs |-> NoJob]
    /\ snap = [p \in Procs |-> NoData]
    /\ batch = [p \in Procs |-> <<>>]
    /\ held = [p \in Procs |-> NoHeld]
    /\ loop = [p \in Procs |-> 0]
    /\ cycle = [p \in Procs |-> NoCycle]
    /\ failCalls = [j \in 1..CycleJobs |-> 0]
    /\ known = {}
    /\ handlerResult = [j \in 1..CycleJobs |-> "none"]
    /\ enqueueResult = [j \in 1..CycleJobs |-> IF j <= n THEN "ok" ELSE "none"]
    /\ knoks = [k \in KnokIds |-> NoKnok]
    /\ hsnap = [p \in Procs |-> NoKnok]
    /\ bot = NoBot
    /\ svc = Started
    /\ ext = NoExt
    /\ PureInit

CycleSpec == CycleInit /\ [][\/ Worker(1)
                             \/ WorkerDequeueUnavailable(1)]_vars

\* ------------------------------------------------------------ properties
Enqueued(j) == jobs[j] # NoData

InRetry(j) == j \in DOMAIN retry

\* How many times the id occurs in the four structures together.
Places(j) ==
  Count(queue, j) + Count(processing, j) + Count(dead, j)
    + (IF InRetry(j) THEN 1 ELSE 0)

\* C1: every job that was enqueued and is not completed is in exactly one of
\* the pending list, the processing list, the retry sorted set and the
\* dead-letter list, and occurs there exactly once.
C1_ExactlyOnePlace ==
  \A j \in JobIds :
    (Enqueued(j) /\ jobs[j].status # JobStatusCompleted) => Places(j) = 1

\* Terminal: completed, or failed and in the dead-letter list.
Terminal(j) ==
  \/ jobs[j].status = JobStatusCompleted
  \/ jobs[j].status = JobStatusFailed /\ j \in Range(dead)

\* C2: every enqueued job is eventually handed to its handler and eventually
\* stays in a terminal state; none stays forever in the retry schedule.
C2_EveryJobEnds ==
  \A j \in JobIds :
    /\ [](Enqueued(j) => <>(handlerResult[j] # "none"))
    /\ [](Enqueued(j) => <>[]Terminal(j))
    /\ []<>(~InRetry(j))

\* The job a worker has popped and whose processing has not finished.
InFlight(w) ==
  IF pc[w] \in {"w_dq_get", "w_dq_upd"} THEN arg[w]
  ELSE IF pc[w] \in {"pj_mark", "pj_mark_exec", "pj_handler", "mh_get", "mh_update", "pj_fail",
                     "pj_fail_exec", "pj_complete", "pj_complete_exec"}
       THEN held[w].id
       ELSE NoJob

\* C3: from Dequeue's pop until the job's processing has finished, the id is
\* in the processing list, so that a crash of the consumer leaves it there.
C3_InFlightIsInProcessing ==
  \A w \in Procs : InFlight(w) # NoJob => InFlight(w) \in Range(processing)

\* The job a caller got from Dequeue has the status processing and is a job
\* that was enqueued.
ReturnedProcessing ==
  \A p \in Procs :
    held[p] # NoHeld =>
      held[p].status = JobStatusProcessing /\ Enqueued(held[p].id)

\* No two workers are between the pop and the end of processJob on one id.
NoTwoInFlight ==
  \A p, q \in Procs :
    (p # q /\ InFlight(p) # NoJob) => InFlight(p) # InFlight(q)

\* A step that takes an id off the pending list takes one occurrence, puts it
\* on the processing list and gives it to exactly one caller.
MovedByOne ==
  \A j \in JobIds :
    Count(queue', j) < Count(queue, j) =>
      /\ Count(queue', j) = Count(queue, j) - 1
      /\ Count(processing', j) = Count(processing, j) + 1
      /\ Cardinality({p \in Procs : arg'[p] = j /\ arg[p] # j}) = 1

\* C4: Dequeue returns an enqueued job with status processing; concurrent
\* Dequeue calls never return the same id, each id on the pending list being
\* moved to the processing list by exactly one caller.
C4_DequeueMovesOnce ==
  /\ [](ReturnedProcessing /\ NoTwoInFlight)
  /\ [][MovedByOne]_vars

\* Two workers have dequeued at the same time and hold different jobs.
C4_Witness ==
  \E p, q \in Procs :
    /\ held[p] # NoHeld /\ held[q] # NoHeld
    /\ held[p].id # held[q].id
    /\ held[p].status = JobStatusProcessing

\* C5: an id is never twice in the processing list, and no two callers hold
\* the same id at once: Dequeue returns an id again only after its holder has
\* Completed or Failed it.
C5_OneHolder ==
  \A j \in JobIds :
    /\ Count(processing, j) <= 1
    /\ Cardinality({p \in Procs : held[p].id = j}) <= 1

\* A Fail call on the id has read the job and not yet written it back.
FailInFlight(j) == \E p \in Procs : pc[p] \in {"fl_exec", "pj_fail_exec"} /\ arg[p] = j

\* C6: once Fail has been called max_retries+1 times on an id, the id is in
\* the dead-letter list, in neither the pending list nor the retry sorted
\* set, its status is failed and its retry_count is max_retries+1.
C6_DeadAfterMaxFails ==
  \A j \in JobIds :
    (failCalls[j] = maxRetries + 1 /\ ~FailInFlight(j)) =>
      /\ j \in Range(dead)
      /\ j \notin Range(queue)
      /\ ~InRetry(j)
      /\ jobs[j].status = JobStatusFailed
      /\ jobs[j].retry_count = maxRetries + 1

\* C7, as claimed: every stored retry_count is at most max_retries.
C7_RetryCountAtMostMax ==
  \A j \in JobIds : jobs[j].retry_count <= maxRetries

\* C7, amended: a job stored as pending has a retry_count of at most
\* max_retries, and a job stored as failed has one above max_retries (the Fail
\* call that exhausts the budget stores max_retries+1).
C7_PendingWithinBudget ==
  \A j \in JobIds :
    /\ jobs[j].status = JobStatusPending => jobs[j].retry_count <= maxRetries
    /\ jobs[j].status = JobStatusFailed => jobs[j].retry_count > maxRetries

\* A job is scheduled for its last retry, and another has been dead-lettered
\* or the same one is about to be.
C7_Witness ==
  \E j \in JobIds :
    /\ jobs[j].status = JobStatusPending
    /\ jobs[j].retry_count = maxRetries
    /\ InRetry(j)

\* Where the id is.
Membership(j) ==
  <<Count(queue, j), Count(processing, j), InRetry(j), Count(dead, j)>>

\* C8: once a job is completed or in the dead-letter list, no call changes
\* its status, retry_count, error or its membership in the four structures.
C8_TerminalIsFrozen ==
  [][\A j \in JobIds :
       (jobs[j].status = JobStatusCompleted \/ j \in Range(dead)) =>
         (jobs'[j] = jobs[j] /\ Membership(j)' = Membership(j))]_vars

\* The moves of the status state machine (and Enqueue's creation).
AllowedMoves ==
  {<<"absent", JobStatusPending>>,
   <<JobStatusPending, JobStatusProcessing>>,
   <<JobStatusProcessing, JobStatusCompleted>>,
   <<JobStatusProcessing, JobStatusPending>>,
   <<JobStatusProcessing, JobStatusFailed>>}

\* C9: a status changes only along pending -> processing -> completed,
\* pending (retry) or failed, and a pending job is not touched by Complete or
\* Fail.
C9_StatusMoves ==
  [][\A j \in JobIds :
       /\ jobs'[j].status # jobs[j].status =>
            <<jobs[j].status, jobs'[j].status>> \in AllowedMoves
       /\ (jobs[j].status = JobStatusPending /\ jobs'[j].status = JobStatusPending) =>
            jobs'[j] = jobs[j]]_vars

\* C10: a job is marked completed only after its handler has returned
\* without error; a job whose handler returned an error is not completed.
C10_CompletedAfterHandler ==
  \A j \in JobIds :
    jobs[j].status = JobStatusCompleted => handlerResult[j] = "ok"

\* The job is in the retry schedule and its scheduled time has passed.
DueForRetry(j) == InRetry(j) /\ retry[j] <= now

\* C11: a job that Fail placed in the retry schedule is, once its scheduled
\* time has passed, eventually moved back onto the pending list by the
\* running worker service.
C11_DueRetryIsPromoted ==
  \A j \in JobIds : DueForRetry(j) ~> (j \in Range(queue))

\* C12: a step that pushes an already enqueued id onto the pending list is
\* the promotion of a due retry entry: the id was in the retry sorted set
\* with a score <= now, the same step removes it from there, and it is
\* pushed once; entries with a future score are left untouched.
C12_PromotionIsAtomic ==
  [][\A j \in JobIds :
       /\ (Enqueued(j) /\ Count(queue', j) > Count(queue, j)) =>
            /\ DueForRetry(j)
            /\ ~InRetry(j)'
            /\ Count(queue', j) = Count(queue, j) + 1
       /\ (InRetry(j) /\ retry[j] > now /\ ~InRetry(j)') => FALSE]_vars

\* The delays of failures 1..max_retries, in seconds.
DelayTable == <<1, 2, 4, 8, 16>>

\* C13: the delay Fail schedules on the N-th failure (1 <= N <= max_retries)
\* is min(initial * 2^(N-1), cap) seconds: 1, 2, 4, 8, 16; the first failure
\* is delayed by exactly initial and no delay exceeds cap.
C13_BackoffDelay ==
  [][\A j \in JobIds :
       (InRetry(j)' /\ (~InRetry(j) \/ retry'[j] # retry[j])) =>
         LET n == jobs'[j].retry_count
             delay == retry'[j] - now
         IN /\ n \in 1..maxRetries
            /\ delay = DelayTable[n]
            /\ delay <= maxBackoffSec
            /\ (n = 1 => delay = initialBackoffSec)]_vars

\* A job is scheduled for its last retry, sixteen seconds ahead.
C13_Witness ==
  \E j \in JobIds :
    /\ InRetry(j)
    /\ jobs[j].retry_count = maxRetries
    /\ retry[j] - now \in {DelayTable[maxRetries] - 1, DelayTable[maxRetries]}

\* The step creates the job record of the id.
Created(id) == ~Enqueued(id) /\ Enqueued(id)'

\* The step pushes the id onto the pending list.
Pushed(id) == Count(queue', id) > Count(queue, id)

\* A step creates a job record exactly when it pushes the id and counts it.
EnqueuedTogether ==
  /\ \A id \in JobIds :
       (Created(id) \/ Pushed(id)) =>
         /\ Created(id) /\ Pushed(id)
         /\ jobs'[id].status = JobStatusPending
         /\ stats'.total_enqueued = stats.total_enqueued + 1
         /\ stats'.pending = stats.pending + 1
         /\ enqueueResult'[id] = "ok"
  /\ (stats'.total_enqueued # stats.total_enqueued) =>
       (\E id \in JobIds : Created(id))

DequeueIssued(w) == pc[w] = "w_dequeue" /\ cycle'[w] # cycle[w]

\* C15: in one cycle the worker calls Dequeue at most min(depth read at the
\* start of the cycle, 10) times, and never before the handler and the
\* Complete/Fail of the job dequeued before have returned.
C15_CycleIsCappedAndSerial ==
  [][\A w \in Procs :
       DequeueIssued(w) =>
         /\ cycle[w].calls < Min(cycle[w].depth, 10)
         /\ held[w] = NoHeld
         /\ arg[w] = NoJob /\ snap[w] = NoData]_vars

\* A cycle that read a depth above the cap has made its tenth Dequeue call.
C15_Witness ==
  \E w \in Procs :
    /\ cycle[w].depth > 10
    /\ cycle[w].calls = 10
    /\ Len(queue) = cycle[w].depth - 10

\* C16: once a Dequeue call of a cycle has returned an error because the
\* store is unavailable, the worker issues no further Dequeue call in that
\* cycle.
C16_DequeueErrorEndsCycle ==
  [][\A w \in Procs : cycle[w].failed => ~DequeueIssued(w)]_vars

\* The tier a method name stands for, and what makes that tier's result.
ProducedBy(in, out) ==
  \/ out.method = "oembed" /\ in.oembed.kind = "found"
  \/ out.method = "http_static" /\ in.oembed.kind # "found"
       /\ in.http.kind = "ok" /\ out.meta.title = "h"
  \/ out.method = "rod_browser" /\ in.oembed.kind # "found"
       /\ in.rod.kind = "ok" /\ out.meta.title \in {"h", "r"}
  \/ out.method = "title_fallback" /\ in.oembed.kind # "found"
       /\ out.meta.title \in {"t", "", "Unknown Title"}

\* C20: for every combination of tier outcomes extractMetadataWithFallbacks
\* returns no error, and a metadata map with one of the four method names,
\* the name of the tier that produced the map.
C20_ExtractionNeverFails ==
  ext.done =>
    /\ ~ext.out.err
    /\ ext.out.method \in {"oembed", "http_static", "rod_browser", "title_fallback"}
    /\ ext.out.meta \in [Fields -> {"", "o", "a", "By a", "h", "r", "t", "u", "Unknown Title"}]
    /\ ProducedBy(ext.in, ext.out)

\* Every tier has failed and the call has returned the title fallback.
C20_Witness ==
  /\ ext.done
  /\ ext.in.oembed.kind = "http_error"
  /\ ext.in.http.kind = "error"
  /\ ext.in.rod.kind = "error"
  /\ ext.in.title.kind = "error"
  /\ ext.out.method = "title_fallback"

\* The step queues a job for the knok.
JobQueuedFor(k) == \E id \in JobIds : KnokOf(id) = k /\ Created(id)

\* After the step a job of the knok is in the dead-letter list.
DeadLetteredFor(k) ==
  \E id \in JobIds :
    KnokOf(id) = k /\ id \in Range(dead') /\ jobs'[id].status = JobStatusFailed

\* C17: a knok's extraction status moves only along pending -> processing
\* -> complete or failed, plus the reset to pending of a resubmission; it
\* becomes failed only when a job of the knok has been dead-lettered, and a
\* complete knok does not go back to processing without a resubmission.
C17_ExtractionStatusMoves ==
  [][\A k \in KnokIds :
       knoks'[k].status # knoks[k].status =>
         \/ knoks[k].status = "absent"
              /\ knoks'[k].status = ExtractionStatusPending
         \/ knoks[k].status = ExtractionStatusPending
              /\ knoks'[k].status = ExtractionStatusProcessing
         \/ knoks[k].status = ExtractionStatusProcessing
              /\ knoks'[k].status = ExtractionStatusComplete
         \/ knoks[k].status = ExtractionStatusProcessing
              /\ knoks'[k].status = ExtractionStatusFailed
              /\ DeadLetteredFor(k)
         \/ knoks'[k].status = ExtractionStatusPending
              /\ JobQueuedFor(k)]_vars

\* A job is dead-lettered: failed and in the dead-letter list.
DeadLettered(j) == j \in Range(dead) /\ jobs[j].status = JobStatusFailed

\* C18: whenever a metadata job has exhausted its retries and is in the
\* dead-letter list, the knok it refers to eventually has the extraction
\* status failed.
C18_DeadLetterFailsKnok ==
  \A j \in JobIds :
    DeadLettered(j) ~> (knoks[KnokOf(j)].status = ExtractionStatusFailed)

\* C19: a write of a title-fallback result over a stored knok keeps every
\* non-empty stored field (title, description, image, site_name).
C19_ResubmissionKeepsMetadata ==
  [][\A k \in KnokIds :
       (knoks[k].status # "absent" /\ knoks'[k] # knoks[k]
          /\ knoks'[k].method = "title_fallback") =>
         \A f \in Fields : knoks[k][f] # "" => knoks'[k][f] = knoks[k][f]]_vars

\* C21: whichever tier produced it, the metadata extractMetadataWithFallbacks
\* returns has a non-empty title.
C21_TitleAlwaysPopulated ==
  ext.done => ext.out.meta.title # ""

\* The tiers in the order of the strategy: oEmbed, static parse, render, title.
TierOrder == <<"oembed", "http", "rod", "title">>

\* s holds some of the members of t, in t's order.
RECURSIVE InOrder(_, _)
InOrder(s, t) ==
  IF s = <<>> THEN TRUE
  ELSE IF t = <<>> THEN FALSE
  ELSE IF Head(s) = Head(t) THEN InOrder(Tail(s), Tail(t))
  ELSE InOrder(s, Tail(t))

\* C22: the fetches of one extraction are made in the order of the tiers; an
\* oEmbed result is returned after no other fetch, and a sufficient static
\* parse is returned after neither a render nor a title fetch.
C22_TiersInStrictOrder ==
  ext.done =>
    /\ InOrder(ext.out.calls, TierOrder)
    /\ ext.out.method = "oembed" => ext.out.calls = <<"oembed">>
    /\ ext.out.method = "http_static" =>
         /\ "rod" \notin Range(ext.out.calls)
         /\ "title" \notin Range(ext.out.calls)

\* The Tier-1 result of the extraction drawn: empty when the fetch failed.
TierOneResult == IF ext.in.http.kind = "error" THEN EmptyMeta ELSE ext.in.http.meta

\* C24: a rod_browser result keeps every non-empty field of the Tier-1
\* result and holds a rendered value only in fields the Tier-1 result left
\* empty.
C24_MergeKeepsTierOne ==
  (ext.done /\ ext.out.method = "rod_browser") =>
    \A f \in Fields :
      /\ TierOneResult[f] # "" => ext.out.meta[f] = TierOneResult[f]
      /\ ext.out.meta[f] = "r" => TierOneResult[f] = ""

\* Tier 2 has succeeded on a page whose static parse found a description the
\* render also has, and no title.
C24_Witness ==
  /\ ext.done
  /\ ext.out.method = "rod_browser"
  /\ TierOneResult.description = "h"
  /\ ext.in.rod.meta.description = "r"
  /\ TierOneResult.title = ""
  /\ ext.out.meta.title = "r"
  /\ ext.out.meta.description = "h"

\* C25: TryExtract returns no metadata and no error for a URL without a
\* provider and an error when the provider's endpoint fails or its answer
\* does not decode; either way the static fetch follows and the extraction
\* returns no error.
C25_TierZeroFallsThrough ==
  ext.done =>
    /\ ext.in.oembed.kind = "unmatched" =>
         TryExtract(ext.in.oembed).isNil /\ ~TryExtract(ext.in.oembed).err
    /\ ext.in.oembed.kind \in {"http_error", "decode_error"} =>
         TryExtract(ext.in.oembed).isNil /\ TryExtract(ext.in.oembed).err
    /\ ext.in.oembed.kind \in {"unmatched", "http_error", "decode_error"} =>
         /\ ext.out.calls[1] = "oembed"
         /\ ext.out.calls[2] = "http"
         /\ ext.out.method # "oembed"
         /\ ~ext.out.err

\* The provider's answer did not decode and the static parse gave the result.
C25_Witness ==
  /\ ext.done
  /\ ext.in.oembed.kind = "decode_error"
  /\ ext.out.method = "http_static"
  /\ ~ext.out.err

\* The values the document's Open-Graph elements give a field.
OgValues(f) ==
  {TagValue(html.doc[i]) : i \in {j \in DOMAIN html.doc :
      html.doc[j].source = "og" /\ html.doc[j].property = f
        /\ html.doc[j].content # ""}}

\* C23: for every field and every order of the meta elements, the static
\* parse returns an Open-Graph value of the document when it has one, and a
\* Twitter Card value only when it has none.
C23_OpenGraphFirst ==
  html.done =>
    \A f \in Fields :
      /\ OgValues(f) # {} => html.ogData[f] \in {CleanUp(v) : v \in OgValues(f)}
      /\ html.ogData[f] = "tw" => OgValues(f) = {}

\* C30: two URLs that differ only in their tracking parameters, in the
\* order of their parameters, in the case of the host and in a leading
\* "www." normalize to the same string.
C30_SpellingsNormalizeAlike ==
  norm.done =>
    /\ ~norm.out[1].err
    /\ ~norm.out[2].err
    /\ norm.out[1].url = norm.out[2].url

\* A URL the patterns of two platforms match.
SharedURL == <<SchemeAtom, "youtube.com", "/a">>

\* The loaded platforms with a pattern that matches the URL.
Matching(url) ==
  {p \in loader.platforms :
     \E i \in DOMAIN URLPatterns(p.id) :
       MatchString([host |-> URLPatterns(p.id)[i], platform |-> p.id], url)}

\* The platform of highest priority, and among those the one registered first.
FirstByPriority(set) ==
  CHOOSE p \in set :
    \A o \in set : o.priority < p.priority
                     \/ (o.priority = p.priority /\ p.reg <= o.reg)

\* C29: a detector built from the loaded platforms tags a URL that the
\* patterns of several platforms match with the platform of highest
\* priority and, among equal priorities, with the one registered first; so
\* any two detectors built from the same platforms give the URL the same tag.
C29_TaggingIsDeterministic ==
  [][\A d \in Detectors :
       (patterns'[d] # patterns[d] /\ Matching(SharedURL) # {}) =>
         detectPlatformFromURL(patterns'[d], SharedURL)
           = FirstByPriority(Matching(SharedURL)).id]_vars

\* A part that is a link or a markdown form, white space, a full stop.
IsForm(part) == Len(part.atoms) > 1
IsWhite(part) == part.atoms \in {<<" ">>, <<"\n">>}
IsStop(part) == part.atoms = <<".">>

\* Every form of the message stands on its own: white space or the start of
\* the message before it; white space, a closing full stop or the end of the
\* message behind it.
Separated(parts) ==
  \A i \in DOMAIN parts :
    IsForm(parts[i]) =>
      /\ i = 1 \/ IsWhite(parts[i - 1])
      /\ \/ i = Len(parts)
         \/ IsWhite(parts[i + 1])
         \/ /\ IsStop(parts[i + 1])
            /\ i + 1 = Len(parts) \/ IsWhite(parts[i + 2])

SingleLine(parts) == \A i \in DOMAIN parts : parts[i].atoms # <<"\n">>

\* The canonical URLs of the links written in the message.
Written(parts) == {parts[i].link : i \in DOMAIN parts} \ {<<>>}

EntryURLs == {det.urls[i].url : i \in DOMAIN det.urls}

C27_OnlyLinksWritten ==
  (det.done /\ Separated(det.parts)) => EntryURLs \subseteq Written(det.parts)

\* The tag DetectURLs gives a link written in the message.
TagOf(link) == IF link = YouTubeLink THEN "youtube" ELSE PlatformUnknown

\* C28: every candidate whose normalization succeeds has its entry, tagged
\* unknown when no platform pattern matches; a candidate whose normalization
\* fails has none and takes no other candidate's entry away.
C28_MalformedCandidatesAreSkipped ==
  (det.done /\ Separated(det.parts)) =>
    /\ \A link \in Written(det.parts) :
         \E i \in DOMAIN det.urls :
           det.urls[i] = [url |-> link, platform |-> TagOf(link)]
    /\ SingleLine(det.parts) =>
         Len(det.urls) = Cardinality(Written(det.parts))

\* A malformed markdown target beside a link of no known platform: the link
\* is returned, tagged unknown, and nothing else.
C28_Witness ==
  /\ det.done
  /\ Separated(det.parts)
  /\ \E i, j \in DOMAIN det.parts :
       /\ IsForm(det.parts[i]) /\ det.parts[i].link = <<>>
       /\ det.parts[j].link = ExampleLink
  /\ det.urls = <<[url |-> ExampleLink, platform |-> PlatformUnknown]>>

\* C31: once Load has returned, whether the store call succeeded or failed,
\* it has returned no error and IsLoaded() is true; when the store call
\* failed the cache holds exactly the built-in default platforms.
C31_LoadFallsBackToDefaults ==
  loader.result # "none" =>
    /\ loader.result = "ok"
    /\ loader.loaded
    /\ loader.storeErr => loader.platforms = DefaultPlatforms

\* A Load whose store call failed after an earlier Load had cached rows of
\* the table: the detectors built in between hold patterns of the table.
C31_Witness ==
  /\ loader.storeErr
  /\ loader.platforms = DefaultPlatforms
  /\ \E d \in Detectors : \E i \in DOMAIN patterns[d] : patterns[d][i].platform = "shorts"

\* The parameters of the query of a URL: key and value of each, the value
\* decoded (url.QueryUnescape, the inverse of the escapes).
QueryOf(url) ==
  LET raw == ParseQuery(SubSeq(url, IndexOf(url, {"?"}) + 1, Len(url)))
      Decode(s) ==
        [i \in DOMAIN s |->
           CASE s[i] = "https%3A%2F%2Fy.com%2Fw" -> "https://y.com/w"
             [] s[i] = "%3F" -> "?"
             [] s[i] = "%3D" -> "="
             [] s[i] = "%26" -> "&"
             [] s[i] = "%253F" -> "%3F"
             [] s[i] = "+" -> " "
             [] OTHER -> s[i]]
  IN [i \in DOMAIN raw |->
        [key |-> SubSeq(raw[i], 1, IndexOf(raw[i], {"="}) - 1),
         value |-> Decode(SubSeq(raw[i], IndexOf(raw[i], {"="}) + 1, Len(raw[i])))]]

\* The endpoint before its query, with the placeholder written as json.
EndpointPath(endpoint) ==
  LET path == SubSeq(endpoint, 1, IndexOf(endpoint, {"?"}) - 1)
  IN [i \in DOMAIN path |->
        IF path[i] = "{format}" THEN "json"
        ELSE IF path[i] = ".{format}" THEN ".json" ELSE path[i]]

\* C32: for every endpoint template and resource URL, buildOEmbedURL
\* returns the endpoint with the {format} placeholder replaced by json and a
\* query with exactly one format=json parameter and exactly one url
\* parameter, whose decoded value is the resource URL, query string and all.
C32_OEmbedURLCarriesTheResource ==
  oreq.done =>
    LET params == QueryOf(oreq.url)
        Of(k) == {i \in DOMAIN params : params[i].key = <<k>>}
    IN /\ ~oreq.err
       /\ SubSeq(oreq.url, 1, IndexOf(oreq.url, {"?"}) - 1)
            = EndpointPath(oreq.endpoint)
       /\ Cardinality(Of("format")) = 1
       /\ \A i \in Of("format") : params[i].value = <<"json">>
       /\ Cardinality(Of("url")) = 1
       /\ \A i \in Of("url") : params[i].value = oreq.resourceURL

\* An endpoint with url parameters of its own, and a resource URL with a
\* query string of its own.
C32_Witness ==
  /\ oreq.done
  /\ oreq.endpoint = <<"https://p.com/oembed", "?", "url", "=", "v", "&", "url", "=", "v">>
  /\ oreq.resourceURL = <<"https://y.com/w", "?", "v">>

\* The last processDetectedURL call was for a URL tagged unknown in strict
\* mode: the server's own setting if it has one, the global default if not.
StrictUnknown(call) ==
  /\ call.platform = PlatformUnknown
  /\ \/ call.setting = "strict"
     \/ call.setting = "none" /\ call.default = "strict"

\* C33: in strict unknown-platform mode (the server's setting overrides the
\* global default) processDetectedURL for a URL tagged unknown creates no
\* item, enqueues no job and returns no error (bot changes with every call
\* whose inputs are not those of the call before).
C33_StrictModeRejectsUnknown ==
  [][(bot' # bot /\ StrictUnknown(bot')) =>
       /\ knoks' = knoks
       /\ UNCHANGED store
       /\ bot'.returned = "nil"]_vars

\* A server set to strict under a permissive default has rejected a URL
\* tagged unknown while a job id was still to be drawn.
C33_Witness ==
  /\ StrictUnknown(bot)
  /\ bot.default = "permissive"
  /\ bot.returned = "nil"
  /\ \E id \in JobIds : jobs[id] = NoData
  /\ \E id \in JobIds : jobs[id] # NoData

\* C34: processDetectedURL enqueues no extraction job for an item that
\* exists with extraction status complete or processing; it enqueues one
\* only when the item is new or its status is pending or failed.  (A step
\* that leaves such an item as it is and stores a job for it is a
\* processDetectedURL call: RefreshKnok resets the status to pending.)
C34_NoJobForSettledItem ==
  [][\A k \in KnokIds :
       (/\ knoks[k].status \in {ExtractionStatusComplete, ExtractionStatusProcessing}
        /\ knoks'[k] = knoks[k]) =>
         \A id \in JobIds :
           (KnokOf(id) = k /\ jobs[id] = NoData) => jobs'[id] = NoData]_vars

\* C35: the pending list is first in, first out.  Every step leaves it as it
\* is, or puts ids in front of the ids already pending (Enqueue, and the
\* promotion of due retries), or hands the id at the far end, the one pushed
\* before every other, to the caller of Dequeue.  So an id pushed before
\* another is dequeued before it, and a retried job re-enters behind every
\* job already pending.
C35_PendingListIsFIFO ==
  [][\/ UNCHANGED queue
     \/ \E k \in 1..Len(queue') : queue' = SubSeq(queue', 1, k) \o queue
     \/ /\ queue # <<>>
        /\ queue' = SubSeq(queue, 1, Len(queue) - 1)
        /\ \E p \in Procs : arg[p] = NoJob /\ arg'[p] = queue[Len(queue)]]_vars

\* A retried job has been promoted while another job was pending: it stands
\* in front, and the job enqueued before the promotion is the next to leave.
C35_Witness ==
  /\ Len(queue) = 2
  /\ jobs[queue[1]].retry_count > 0
  /\ jobs[queue[2]].retry_count = 0

\* C36: in every quiescent state (no process is inside a queue operation or
\* a cycle of the worker) the counter pending is the length of the pending
\* list and the counter processing is the length of the processing list; so
\* neither counter is negative.
C36_CountersMatchLists ==
  (\A p \in Procs : pc[p] = "idle") =>
    /\ stats.pending = Len(queue)
    /\ stats.processing = Len(processing)
    /\ stats.pending >= 0
    /\ stats.processing >= 0

\* C37: Complete and Fail called with a job id that has no stored job record
\* (never enqueued, or expired) return an error and change nothing: a call
\* that goes on to its pipeline found a record, a call that returns the error
\* leaves every list, the sorted set, the counters and the job records as they
\* were, and so does the return.
C37_MissingRecordChangesNothing ==
  [][\A p \in Procs :
       /\ (pc[p] = "idle" /\ pc'[p] \in {"cp_exec", "fl_exec"}) => jobs[arg'[p]] # NoData
       /\ (pc[p] = "idle" /\ pc'[p] \in {"cp_err", "fl_err"}) =>
            /\ UNCHANGED store
            /\ \E id \in JobIds : jobs[id] = NoData
       /\ (pc[p] \in {"cp_err", "fl_err"} /\ pc'[p] # pc[p]) =>
            (pc'[p] = "idle" /\ UNCHANGED store)]_vars

\* Fail has returned its error for a job whose record expired while its id
\* was in the processing list.
C37_Witness ==
  /\ pc[1] = "fl_err"
  /\ Len(processing) = 1
  /\ jobs[processing[1]] = NoData
  /\ stats.processing = 1

\* C38: DetectURLs tags URLs with the pattern list compiled at the most
\* recent New or Refresh: a scan tags with the detector's own patterns, a
\* detector whose patterns were compiled before the first Load tags every
\* URL unknown, and a step that changes the loader's cache (Load, Refresh)
\* changes no detector's patterns and no result of a scan.
C38_TagsFollowCompiledPatterns ==
  [][/\ det' # det =>
          /\ det'.urls = DetectURLs(patterns[1], det'.content)
          /\ patterns[1] = <<>> =>
                \A i \in DOMAIN det'.urls : det'.urls[i].platform = PlatformUnknown
     /\ loader' # loader => (patterns' = patterns /\ det' = det)]_vars

\* The loader has cached youtube, the detector built before that Load has
\* not been refreshed, and its scan of a youtube link says unknown.
C38_Witness ==
  /\ loader.loaded
  /\ \E row \in loader.platforms : row.id = "youtube"
  /\ patterns[1] = <<>>
  /\ det.done
  /\ det.urls = <<[url |-> YouTubeLink, platform |-> PlatformUnknown]>>

\* C39: no interleaving of DetectURLs, IsSupported, Detector.Refresh,
\* Loader.Load/Refresh and the loader's getters deadlocks: whenever calls are
\* under way, one of them can take its next step; no goroutine that holds the
\* detector lock is at an acquisition of it; and no goroutine that holds
\* the loader lock is at an acquisition of the detector lock.
C39_NoDeadlock ==
  /\ (\E g \in Procs : pc[g] # "idle") =>
       \E g \in Procs :
         /\ pc[g] # "idle"
         /\ ENABLED (\/ DetectorRead(g) \/ DetectorRefresh(g)
                     \/ LoaderLoad(g) \/ LoaderGet(g))
  /\ \A g \in Procs :
       /\ ~(pc[g] \in Locks.dWant /\ pc[g] \in Locks.dRead \cup Locks.dLocked)
       /\ ~(pc[g] \in Locks.dWant /\ pc[g] \in Locks.lRead \cup Locks.lLocked)

\* A Refresh that holds the detector lock waits for the loader's read lock
\* while a Load holds the loader lock.
C39_Witness ==
  /\ pc[1] = "bp_locked"
  /\ pc[2] = "ld_locked"

====
